---- MODULE Spec2Model ----
(***************************************************************************)
(* The FMP tool servers: the curating server (src/unnamed/part_000), the   *)
(* tool-table server (src/unnamed/part_001) and the switch server          *)
(* (src/server.js).  One tool invocation is: build the request, await the  *)
(* upstream answer, curate it, return the content list.                    *)
(*                                                                         *)
(* JavaScript values are records [t, n, d, s, a]:                          *)
(*   t  the type tag; n/d the number (d = 1 for integers, d = 0 for NaN);  *)
(*   s  the fragments of a string, or the own keys of an object in         *)
(*      insertion order; a  the elements of an array, or the values of an  *)
(*      object in key order.                                               *)
(***************************************************************************)
EXTENDS Integers, Sequences, FiniteSets, TLC

\* ------------------------------------------------------------ JS values

JS(t, n, d, s, a) == [t |-> t, n |-> n, d |-> d, s |-> s, a |-> a]

\* the sequence f, with every element evaluated once
Tuple(f) == f \o <<>>

Undefined == JS("undefined", 0, 1, <<>>, <<>>)
Null == JS("null", 0, 1, <<>>, <<>>)
NaN == JS("number", 0, 0, <<>>, <<>>)
Num(n) == JS("number", n, 1, <<>>, <<>>)
Bool(b) == JS("boolean", IF b THEN 1 ELSE 0, 1, <<>>, <<>>)
Str(s) == JS("string", 0, 1, s, <<>>)
Arr(a) == JS("array", 0, 1, <<>>, a)
\* an object literal: the sequence of its <<key, value>> pairs
Obj(p) ==
  JS("object", 0, 1, Tuple([i \in 1..Len(p) |-> p[i][1]]),
     Tuple([i \in 1..Len(p) |-> p[i][2]]))

\* the ISO date string of day number day
DateString(day) == JS("string", day, 1, <<"YYYY-MM-DD">>, <<>>)

IsNullish(v) == v.t \in {"undefined", "null"}
IsArray(v) == v.t = "array"
IsNaN(v) == v.t = "number" /\ v.d = 0

Truthy(v) ==
  CASE v.t \in {"undefined", "null"} -> FALSE
    [] v.t = "number" -> v.d # 0 /\ v.n # 0
    [] v.t = "boolean" -> v.n = 1
    [] v.t = "string" -> Len(v.s) > 0
    [] OTHER -> TRUE

\* a || b
Or(a, b) == IF Truthy(a) THEN a ELSE b

HasOwn(v, k) == v.t = "object" /\ \E i \in 1..Len(v.s) : v.s[i] = k

\* v[k] of a value that is not null or undefined
Get(v, k) ==
  CASE v.t = "object" ->
         IF \E i \in 1..Len(v.s) : v.s[i] = k
         THEN v.a[CHOOSE i \in 1..Len(v.s) : v.s[i] = k]
         ELSE Undefined
    [] v.t = "array" /\ k = "length" -> Num(Len(v.a))
    [] v.t = "string" /\ k = "length" -> Num(Len(v.s))
    [] OTHER -> Undefined

\* Object.keys(v).length
KeyCount(v) ==
  CASE v.t = "object" -> Len(v.s)
    [] v.t = "array" -> Len(v.a)
    [] v.t = "string" -> Len(v.s)
    [] OTHER -> 0

\* Object.values(v) of an object or an array
Values(v) == IF v.t \in {"object", "array"} THEN v.a ELSE <<>>

RECURSIVE Flat(_)
\* array.flat(): one level of nesting removed
Flat(seq) ==
  IF seq = <<>> THEN <<>>
  ELSE (IF IsArray(Head(seq)) THEN Head(seq).a ELSE <<Head(seq)>>) \o Flat(Tail(seq))

\* array[0]
First(v) == IF Len(v.a) > 0 THEN v.a[1] ELSE Undefined

\* variant of Slice that takes the whole array
Slice_whole(seq, count) == seq

\* array.slice(0, count)
Slice(seq, count) == SubSeq(seq, 1, IF count < Len(seq) THEN count ELSE Len(seq))

Min(a, b) == IF a < b THEN a ELSE b

Abs(n) == IF n < 0 THEN -n ELSE n

RECURSIVE Gcd(_, _)
Gcd(a, b) == IF b = 0 THEN a ELSE Gcd(b, a % b)

\* the number p / q (q # 0) in lowest terms
Ratio(p, q) ==
  LET g == Gcd(Abs(p), Abs(q))
      sgn == IF q < 0 THEN -1 ELSE 1
  IN JS("number", sgn * (p \div g), sgn * (q \div g), <<>>, <<>>)

\* new Date(v).getTime(): the epoch time of a date value (counted in seconds,
\* which keeps the products within 32-bit integers), NaN when it does not parse
DateTime(v) ==
  CASE v.t = "string" /\ v.s = <<"YYYY-MM-DD">> -> Num(v.n * 86400)
    [] v.t = "null" -> Num(0)
    [] v.t = "number" /\ v.d = 1 -> Num(v.n)
    [] OTHER -> NaN

\* array.sort((a, b) => new Date(b.date) - new Date(a.date)) when newestFirst,
\* (a, b) => new Date(a.date) - new Date(b.date) otherwise: Array.prototype.sort
\* is stable, and a comparator result of NaN counts as 0.
SortByDate(seq, newestFirst) ==
  LET n == Len(seq)
      time == Tuple([i \in 1..n |-> DateTime(Get(seq[i], "date"))])
      cmp(i, j) ==
        IF IsNaN(time[i]) \/ IsNaN(time[j]) THEN 0
        ELSE IF newestFirst THEN time[j].n - time[i].n
        ELSE time[i].n - time[j].n
      rank == Tuple([i \in 1..n |->
                Cardinality({j \in 1..n : cmp(j, i) < 0 \/ (cmp(j, i) = 0 /\ j < i)}) + 1])
  IN Tuple([k \in 1..n |-> seq[CHOOSE i \in 1..n : rank[i] = k]])

\* ToNumber(v) of the values Math.max and Math.min are given
ToNumber(v) ==
  CASE v.t = "number" -> v
    [] v.t = "null" -> Num(0)
    [] v.t = "boolean" -> Num(v.n)
    [] OTHER -> NaN

\* Math.max(...seq) / Math.min(...seq) of a non-empty sequence of integers
MathExtreme(seq, max) ==
  LET nums == Tuple([i \in 1..Len(seq) |-> ToNumber(seq[i])])
  IN IF \E i \in 1..Len(seq) : IsNaN(nums[i]) THEN NaN
     ELSE nums[CHOOSE i \in 1..Len(seq) : \A j \in 1..Len(seq) :
                 IF max THEN nums[j].n <= nums[i].n ELSE nums[j].n >= nums[i].n]

RECURSIVE Stringify(_)
\* JSON.stringify(v, null, 2), as the JSON document it writes: an object
\* property whose value is undefined is left out, an undefined array element
\* and NaN are written as null
Stringify(v) ==
  CASE v.t = "object" ->
         LET keep == SelectSeq(Tuple([i \in 1..Len(v.s) |-> i]),
                               LAMBDA i : v.a[i].t # "undefined")
         IN JS("object", 0, 1, Tuple([i \in 1..Len(keep) |-> v.s[keep[i]]]),
               Tuple([i \in 1..Len(keep) |-> Stringify(v.a[keep[i]])]))
    [] v.t = "array" ->
         Arr(Tuple([i \in 1..Len(v.a) |->
               IF v.a[i].t = "undefined" THEN Null ELSE Stringify(v.a[i])]))
    [] v.t = "number" /\ v.d = 0 -> Null
    [] OTHER -> v

\* `${v}` of a number or a string
Text(v) ==
  CASE v.t = "number" /\ v.d = 1 -> <<ToString(v.n)>>
    [] v.t = "string" /\ v.s = <<"YYYY-MM-DD">> -> <<"day", ToString(v.n)>>
    [] v.t = "string" -> v.s
    [] OTHER -> <<v.t>>

\* ------------------------------------------------------------ tool results

\* the text of a content item: a sentence (fragments), or a JSON document
Sentence(s) == [form |-> "sentence", line |-> s, json |-> Undefined]
Json(v) == [form |-> "json", line |-> <<>>, json |-> Stringify(v)]

\* { content: [{ type: "text", text }] }
TextResult(text) == [content |-> <<[type |-> "text", text |-> text]>>]

\* the two ways a try block ends
Return(text) == [thrown |-> FALSE, message |-> <<>>, body |-> Undefined, value |-> TextResult(text)]
Throw(message, body) == [thrown |-> TRUE, message |-> message, body |-> body, value |-> [content |-> <<>>]]

\* a TypeError raised by the curation code (no response attached)
TypeError == Throw(<<"TypeError">>, Undefined)

\* await axios.get(url): the upstream answer is a body, or a rejection with
\* the error's message and the provider's response body
Resolved(data) == [ok |-> TRUE, data |-> data, message |-> <<>>, body |-> Undefined]
Rejected(message, body) == [ok |-> FALSE, data |-> Undefined, message |-> message, body |-> body]

\* array.map(f)
Map(seq, f(_)) == Tuple([i \in 1..Len(seq) |-> f(seq[i])])

\* array.length === 0 (false of a value without a numeric length)
LengthIs0(v) == Get(v, "length") = Num(0)

\* { k: o.k, ... } for the keys ks
Pick(o, ks) == Obj(Tuple([i \in 1..Len(ks) |-> <<ks[i], Get(o, ks[i])>>]))

\* Array.isArray(data) ? data[0] : data
FirstOrSelf(data) == IF IsArray(data) THEN First(data) ELSE data

\* ------------------------------------------------------------ search_symbol

SEARCH_MAX_RESULTS_TO_LLM == 5

searchFields == <<"symbol", "name", "currency", "exchangeShortName">>

search_symbol_try(a, res) ==
  IF ~res.ok THEN Throw(res.message, res.body)
  ELSE LET results == res.data
       IN IF ~Truthy(results) \/ LengthIs0(results)
          THEN Return(Sentence(<<"No symbols found matching your query.">>))
          ELSE IF ~IsArray(results) THEN TypeError
          ELSE LET shown == Slice(results.a, SEARCH_MAX_RESULTS_TO_LLM)
               IN IF \E i \in 1..Len(shown) : IsNullish(shown[i]) THEN TypeError
                  ELSE LET summarizedResults == Map(shown, LAMBDA item : Pick(item, searchFields))
                       IN IF Len(results.a) > SEARCH_MAX_RESULTS_TO_LLM
                          THEN Return(Json(Obj(<<
                                 <<"message", Str(<<"Displaying top",
                                                    ToString(SEARCH_MAX_RESULTS_TO_LLM), "of",
                                                    ToString(Len(results.a)),
                                                    "symbols fetched. Be more specific if your target is not listed.">>)>>,
                                 <<"matches", Arr(summarizedResults)>> >>)))
                          ELSE Return(Json(Arr(summarizedResults)))

search_symbol_catch(c) ==
  IF c.thrown THEN Return(Sentence(<<"Error in search_symbol:">> \o c.message)) ELSE c

search_symbol_handler(a, res) == search_symbol_catch(search_symbol_try(a, res))

\* ------------------------------------------------------------ company_profile

DESCRIPTION_MAX_LENGTH == 300

descriptionMarker ==
  <<".", ".", ".", " ", "(", "t", "r", "u", "n", "c", "a", "t", "e", "d", ")">>

\* description && description.length > 300
\*   ? description.substring(0, 300) + "... (truncated)" : description
truncateDescription(description) ==
  IF Truthy(description) /\ description.t = "string"
     /\ Len(description.s) > DESCRIPTION_MAX_LENGTH
  THEN Str(SubSeq(description.s, 1, DESCRIPTION_MAX_LENGTH) \o descriptionMarker)
  ELSE description

summarizedProfile(profileData) ==
  Obj(<< <<"symbol", Get(profileData, "symbol")>>,
         <<"companyName", Get(profileData, "companyName")>>,
         <<"price", Get(profileData, "price")>>,
         <<"currency", Get(profileData, "currency")>>,
         <<"exchangeShortName", Get(profileData, "exchangeShortName")>>,
         <<"industry", Get(profileData, "industry")>>,
         <<"sector", Get(profileData, "sector")>>,
         <<"website", Get(profileData, "website")>>,
         <<"description", truncateDescription(Get(profileData, "description"))>>,
         <<"ceo", Get(profileData, "ceo")>>,
         <<"marketCap", Get(profileData, "mktCap")>>,
         <<"beta", Get(profileData, "beta")>>,
         <<"volAvg", Get(profileData, "volAvg")>>,
         <<"lastDiv", Get(profileData, "lastDiv")>>,
         <<"range", Get(profileData, "range")>>,
         <<"isActivelyTrading", Get(profileData, "isActivelyTrading")>> >>)

company_profile_try(a, res) ==
  IF ~res.ok THEN Throw(res.message, res.body)
  ELSE LET profileData == FirstOrSelf(res.data)
       IN IF ~Truthy(profileData) \/ KeyCount(profileData) = 0
          THEN Return(Sentence(<<"No company profile data found for the symbol.">>))
          ELSE Return(Json(summarizedProfile(profileData)))

company_profile_catch(c) ==
  IF c.thrown THEN Return(Sentence(<<"Error in company_profile:">> \o c.message)) ELSE c

company_profile_handler(a, res) == company_profile_catch(company_profile_try(a, res))

\* ------------------------------------------------------------ quote

quoteFields ==
  <<"symbol", "name", "price", "changesPercentage", "change", "dayLow", "dayHigh",
    "yearHigh", "yearLow", "marketCap", "priceAvg50", "priceAvg200", "volume",
    "avgVolume", "open", "previousClose", "eps", "pe", "timestamp">>

summarizedQuote(quoteData) == Pick(quoteData, quoteFields)

quote_try(a, res) ==
  IF ~res.ok THEN Throw(res.message, res.body)
  ELSE LET quoteData == FirstOrSelf(res.data)
       IN IF ~Truthy(quoteData) \/ KeyCount(quoteData) = 0
          THEN Return(Sentence(<<"No quote data found for the symbol.">>))
          ELSE Return(Json(summarizedQuote(quoteData)))

quote_catch(c) ==
  IF c.thrown THEN Return(Sentence(<<"Error in quote:">> \o c.message)) ELSE c

quote_handler(a, res) == quote_catch(quote_try(a, res))

\* ------------------------------------------------------------ historical_stock_data

POINTS_THRESHOLD_FOR_SUMMARY == 60
RECENT_POINTS_TO_SHOW_WITH_SUMMARY == 5
MAX_POINTS_FOR_FULL_DETAIL == 150

\* variant of ohlcv that reads close from adjClose
ohlcv_adjusted(p) ==
  Obj(<< <<"date", Get(p, "date")>>, <<"open", Get(p, "open")>>,
         <<"high", Get(p, "high")>>, <<"low", Get(p, "low")>>,
         <<"close", Get(p, "adjClose")>>, <<"volume", Get(p, "volume")>> >>)

\* (p) => ({ date, open, high, low, close, volume })
ohlcv(p) ==
  Obj(<< <<"date", Get(p, "date")>>, <<"open", Get(p, "open")>>,
         <<"high", Get(p, "high")>>, <<"low", Get(p, "low")>>,
         <<"close", Get(p, "close")>>, <<"volume", Get(p, "volume")>> >>)

\* response.data.historical || response.data
history(data) == Or(Get(data, "historical"), data)

\* (Array.isArray(history) ? history : Object.values(history).flat()).sort(newest first)
dataPoints(h) == SortByDate(IF IsArray(h) THEN h.a ELSE Flat(Values(h)), TRUE)

\* variant of chronologicalPoints that keeps the order it is given
chronologicalPoints_unsorted(points) == points

\* [...dataPoints].sort(oldest first)
chronologicalPoints(points) == SortByDate(points, FALSE)

\* variant of limitedDetailedData without the cap
limitedDetailedData_uncapped(points) == Map(points, ohlcv)

\* dataPoints.slice(0, MAX_POINTS_FOR_FULL_DETAIL).map(ohlcv)
limitedDetailedData(points) == Map(Slice(points, MAX_POINTS_FOR_FULL_DETAIL), ohlcv)

\* variant of recentData that takes the other end of the points
recentData_oldest(points) ==
  Map(SubSeq(points, Len(points) - RECENT_POINTS_TO_SHOW_WITH_SUMMARY + 1, Len(points)), ohlcv)

\* dataPoints.slice(0, RECENT_POINTS_TO_SHOW_WITH_SUMMARY).map(ohlcv)
recentData(points) == Map(Slice(points, RECENT_POINTS_TO_SHOW_WITH_SUMMARY), ohlcv)

\* dataPoints.map(ohlcv)
allAvailableData(points) == Map(points, ohlcv)

\* last.close && first.close ? ((last.close - first.close) / first.close) * 100 : null
priceChangePercent(first, last) ==
  LET l == Get(last, "close")
      f == Get(first, "close")
  IN IF Truthy(l) /\ Truthy(f)
     THEN (IF l.t = "number" /\ f.t = "number"
           THEN Ratio((l.n * f.d - f.n * l.d) * 100, l.d * f.n)
           ELSE NaN)
     ELSE Null

\* the digest of more than POINTS_THRESHOLD_FOR_SUMMARY points
summarizedHistory(points) ==
  LET chrono == chronologicalPoints(points)
      chronologicalFirst == chrono[1]
      chronologicalLast == chrono[Len(chrono)]
      highs == Map(chrono, LAMBDA p : Get(p, "high"))
      lows == Map(chrono, LAMBDA p : Get(p, "low"))
  IN Obj(<<
       <<"message", Str(<<"Summarized", ToString(Len(points)), "data points from">>
                        \o Text(Get(chronologicalFirst, "date")) \o <<"to">>
                        \o Text(Get(chronologicalLast, "date"))
                        \o <<". Showing", ToString(RECENT_POINTS_TO_SHOW_WITH_SUMMARY),
                             "most recent points. Request 'full' detail for more data points (up to",
                             ToString(MAX_POINTS_FOR_FULL_DETAIL), ").">>)>>,
       <<"periodStartDate", Get(chronologicalFirst, "date")>>,
       <<"periodEndDate", Get(chronologicalLast, "date")>>,
       <<"startPrice", Get(chronologicalFirst, "close")>>,
       <<"endPrice", Get(chronologicalLast, "close")>>,
       <<"periodHigh", MathExtreme(highs, TRUE)>>,
       <<"periodLow", MathExtreme(lows, FALSE)>>,
       <<"priceChangePercent", priceChangePercent(chronologicalFirst, chronologicalLast)>>,
       <<"recentData", Arr(recentData(points))>> >>)

\* variant of exceedsSummaryThreshold with >=
exceedsSummaryThreshold_inclusive(points) == Len(points) >= POINTS_THRESHOLD_FOR_SUMMARY

\* dataPoints.length > POINTS_THRESHOLD_FOR_SUMMARY
exceedsSummaryThreshold(points) == Len(points) > POINTS_THRESHOLD_FOR_SUMMARY

\* the payload of the points that passed the empty checks
historyPayload(points, detail) ==
  IF detail = "full"
  THEN LET shown == limitedDetailedData(points)
       IN Obj(<< <<"message", Str(<<"Showing", ToString(Len(shown)), "of",
                                    ToString(Len(points)),
                                    "fetched data points (full detail requested, capped at",
                                    ToString(MAX_POINTS_FOR_FULL_DETAIL), ").">>)>>,
                 <<"data", Arr(shown)>> >>)
  ELSE IF exceedsSummaryThreshold(points)
  THEN summarizedHistory(points)
  ELSE LET all == allAvailableData(points)
       IN Obj(<< <<"message", Str(<<"Showing all", ToString(Len(all)),
                                    "fetched data points (below summary threshold).">>)>>,
                 <<"data", Arr(all)>> >>)

\* the try block of the historical_stock_data handler, from the answer on
historical_stock_data_try(a, res) ==
  IF ~res.ok THEN Throw(res.message, res.body)
  ELSE IF IsNullish(res.data) THEN TypeError
  ELSE LET h == history(res.data)
       IN IF \/ ~Truthy(h)
             \/ (IsArray(h) /\ Len(h.a) = 0)
             \/ (h.t \in {"object", "array"} /\ KeyCount(h) = 0)
          THEN Return(Sentence(<<"No historical data found for the given parameters.">>))
          ELSE LET flat == IF IsArray(h) THEN h.a ELSE Flat(Values(h))
               IN IF \E i \in 1..Len(flat) : IsNullish(flat[i]) THEN TypeError
                  ELSE IF Len(flat) = 0
                  THEN Return(Sentence(<<"No historical data points found after processing.">>))
                  ELSE Return(Json(historyPayload(dataPoints(h), a.detail)))

\* variant of the catch block that lets the exception through
historical_stock_data_catch_rethrow(c) == c

\* catch (error) of the historical_stock_data handler
historical_stock_data_catch(c) ==
  IF c.thrown
  THEN Return(Sentence(<<"Error fetching historical_stock_data:">> \o c.message))
  ELSE c

historical_stock_data_handler(a, res) ==
  historical_stock_data_catch(historical_stock_data_try(a, res))

\* ------------------------------------------------------------ technical_indicator

RECENT_VALUES_COUNT == 3

\* indicator_type.toLowerCase() / indicator_type.toUpperCase()
ToLowerCase(name) == CASE name = "SMA" -> "sma" [] name = "Rsi" -> "rsi" [] OTHER -> name
ToUpperCase(name) == CASE name = "sma" -> "SMA" [] name = "Rsi" -> "RSI" [] OTHER -> name

\* val[lower] || val[upper] || val.indicatorValue || val.value
indicatorValue(val, type) ==
  Or(Or(Or(Get(val, ToLowerCase(type)), Get(val, ToUpperCase(type))),
        Get(val, "indicatorValue")),
     Get(val, "value"))

\* (val) => ({ date: val.date, [indicator_type.toLowerCase()]: ... })
indicatorPoint(val, type) ==
  Obj(<< <<"date", Get(val, "date")>>, <<ToLowerCase(type), indicatorValue(val, type)>> >>)

\* indicatorData.slice(0, RECENT_VALUES_COUNT).map(indicatorPoint)
recentValues(indicatorData, type) ==
  Map(Slice(indicatorData, RECENT_VALUES_COUNT), LAMBDA val : indicatorPoint(val, type))

technical_indicator_try(a, res) ==
  IF ~res.ok THEN Throw(res.message, res.body)
  ELSE LET indicatorData == res.data
       IN IF ~Truthy(indicatorData) \/ (IsArray(indicatorData) /\ Len(indicatorData.a) = 0)
          THEN Return(Sentence(<<"No", a.indicator_type, "data found for", "SYM",
                                 "with period", "14", "on", "daily", "interval.">>))
          ELSE IF IsArray(indicatorData)
          THEN IF \E i \in 1..Len(Slice(indicatorData.a, RECENT_VALUES_COUNT)) :
                    IsNullish(indicatorData.a[i])
               THEN TypeError
               ELSE LET recent == recentValues(indicatorData.a, a.indicator_type)
                    IN IF Len(indicatorData.a) <= RECENT_VALUES_COUNT
                       THEN Return(Json(Arr(recent)))
                       ELSE Return(Json(Obj(<<
                              <<"message", Str(<<"Showing", ToString(Len(recent)),
                                                 "most recent", a.indicator_type, "values of",
                                                 ToString(Len(indicatorData.a)),
                                                 "fetched. Full series available via API.">>)>>,
                              <<"indicator", Str(<<a.indicator_type>>)>>,
                              <<"values", Arr(recent)>> >>)))
          ELSE Return(Json(indicatorData))

technical_indicator_catch(c) ==
  IF c.thrown THEN Return(Sentence(<<"Error in technical_indicator:">> \o c.message)) ELSE c

technical_indicator_handler(a, res) ==
  technical_indicator_catch(technical_indicator_try(a, res))

\* ------------------------------------------------------------ analyst_estimates

RECENT_ESTIMATES_COUNT == 2

priceTargetFields ==
  <<"lastUpdated", "targetHigh", "targetLow", "targetConsensus", "targetMedian",
    "numberOfAnalysts">>

estimateFields == <<"date", "estimatedRevenueAvg", "estimatedEpsAvg">>

\* estimatesData && estimatesData.length > 0
hasEstimates(estimatesData) ==
  /\ Truthy(estimatesData)
  /\ Get(estimatesData, "length").t = "number"
  /\ Get(estimatesData, "length").n > 0

\* the try block once both answers are in
analyst_estimates_try(a, estimatesResponse, priceTargetResponse) ==
  IF ~estimatesResponse.ok THEN Throw(estimatesResponse.message, estimatesResponse.body)
  ELSE IF ~priceTargetResponse.ok
  THEN Throw(priceTargetResponse.message, priceTargetResponse.body)
  ELSE LET estimatesData == estimatesResponse.data
           priceTargetData == FirstOrSelf(priceTargetResponse.data)
       IN IF (~Truthy(estimatesData) \/ LengthIs0(estimatesData)) /\ ~Truthy(priceTargetData)
          THEN Return(Sentence(<<"No analyst estimates or price target data found for the symbol.">>))
          ELSE IF hasEstimates(estimatesData)
                  /\ (~IsArray(estimatesData)
                      \/ \E i \in 1..Len(Slice(estimatesData.a, RECENT_ESTIMATES_COUNT)) :
                           IsNullish(estimatesData.a[i]))
          THEN TypeError
          ELSE Return(Json(Obj(
                 << <<"symbol", Str(<<"SYM">>)>>,
                    <<"sourceMessage", Str(<<"Summarized analyst estimates. More historical/detailed data might be available via direct API.">>)>> >>
                 \o (IF Truthy(priceTargetData)
                     THEN << <<"priceTargetSummary", Pick(priceTargetData, priceTargetFields)>> >>
                     ELSE <<>>)
                 \o (IF hasEstimates(estimatesData)
                     THEN << <<"recentEstimates",
                               Arr(Map(Slice(estimatesData.a, RECENT_ESTIMATES_COUNT),
                                       LAMBDA est : Pick(est, estimateFields)))>>,
                             <<"recommendationInfo", Str(<<"Detailed buy/hold/sell counts not directly available in this summary. FMP has separate recommendation endpoints.">>)>> >>
                     ELSE <<>>))))

analyst_estimates_catch(c) ==
  IF c.thrown THEN Return(Sentence(<<"Error in analyst_estimates:">> \o c.message)) ELSE c

analyst_estimates_handler(a, estimatesResponse, priceTargetResponse) ==
  analyst_estimates_catch(analyst_estimates_try(a, estimatesResponse, priceTargetResponse))

\* ------------------------------------------------------------ stock_news

ARTICLES_FOR_SUMMARY == 3
ARTICLES_FOR_FULL_DETAIL == 10
SNIPPET_MAX_LENGTH == 200

snippetMarker == <<".", ".", ".">>

\* article.text && article.text.length > 200
\*   ? article.text.substring(0, 200) + "..." : article.text
truncateSnippet(text) ==
  IF Truthy(text) /\ text.t = "string" /\ Len(text.s) > SNIPPET_MAX_LENGTH
  THEN Str(SubSeq(text.s, 1, SNIPPET_MAX_LENGTH) \o snippetMarker)
  ELSE text

summarizedArticle(article) ==
  Obj(<< <<"title", Get(article, "title")>>,
         <<"publishedDate", Get(article, "publishedDate")>>,
         <<"site", Get(article, "site")>>,
         <<"url", Get(article, "url")>>,
         <<"snippet", truncateSnippet(Get(article, "text"))>> >>)

\* variant of articlesToShowCount that ignores detail
articlesToShowCount_summaryCapOnly(articles, detail) == Min(Len(articles), ARTICLES_FOR_SUMMARY)

\* Math.min(articles.length, detail === "full" ? 10 : 3)
articlesToShowCount(articles, detail) ==
  IF detail = "full" THEN Min(Len(articles), ARTICLES_FOR_FULL_DETAIL)
  ELSE Min(Len(articles), ARTICLES_FOR_SUMMARY)

stock_news_try(a, res) ==
  IF ~res.ok THEN Throw(res.message, res.body)
  ELSE LET articles == res.data
       IN IF ~Truthy(articles) \/ LengthIs0(articles)
          THEN Return(Sentence(<<"No news found for the given symbol(s).">>))
          ELSE IF ~IsArray(articles) THEN TypeError
          ELSE LET count == articlesToShowCount(articles.a, a.detail)
                   shown == Slice(articles.a, count)
               IN IF \E i \in 1..Len(shown) : IsNullish(shown[i]) THEN TypeError
                  ELSE LET summarizedArticles == Map(shown, summarizedArticle)
                           messagePrefix ==
                             IF a.detail = "full"
                             THEN <<"Displaying", ToString(Len(summarizedArticles)), "of",
                                    ToString(Len(articles.a)),
                                    "fetched articles (full detail requested, capped at",
                                    ToString(ARTICLES_FOR_FULL_DETAIL), "):">>
                             ELSE <<"Displaying summaries for the",
                                    ToString(Len(summarizedArticles)), "most recent of",
                                    ToString(Len(articles.a)),
                                    "articles fetched. Request 'full' detail for more.">>
                       IN IF \/ Len(articles.a) > Len(summarizedArticles)
                             \/ (a.detail = "full" /\ Len(articles.a) >= count)
                          THEN Return(Json(Obj(<< <<"message", Str(messagePrefix)>>,
                                                  <<"articles", Arr(summarizedArticles)>> >>)))
                          ELSE Return(Json(Arr(summarizedArticles)))

stock_news_catch(c) ==
  IF c.thrown THEN Return(Sentence(<<"Error fetching stock_news:">> \o c.message)) ELSE c

stock_news_handler(a, res) == stock_news_catch(stock_news_try(a, res))

\* ------------------------------------------------------------ earnings_calendar

EARNINGS_MAX_RESULTS_TO_LLM == 10

earningsSummaryFields == <<"date", "symbol", "epsEstimated", "time">>

earningsFields ==
  <<"date", "symbol", "eps", "epsEstimated", "revenue", "revenueEstimated", "time",
    "fiscalDateEnding">>

earnings_calendar_try(a, res) ==
  IF ~res.ok THEN Throw(res.message, res.body)
  ELSE LET earningsData == res.data
       IN IF ~Truthy(earningsData) \/ LengthIs0(earningsData)
          THEN Return(Sentence(<<"No earnings calendar data found for the given parameters.">>))
          ELSE IF ~IsArray(earningsData) THEN TypeError
          ELSE LET shown == Slice(earningsData.a, EARNINGS_MAX_RESULTS_TO_LLM)
               IN IF \E i \in 1..Len(shown) : IsNullish(shown[i]) THEN TypeError
                  ELSE IF ~a.symbol /\ Len(earningsData.a) > EARNINGS_MAX_RESULTS_TO_LLM
                  THEN Return(Json(Obj(<<
                         <<"message", Str(<<"Displaying first",
                                            ToString(EARNINGS_MAX_RESULTS_TO_LLM), "of",
                                            ToString(Len(earningsData.a)),
                                            "earnings events. Specify a symbol or a tighter date range for more targeted results.">>)>>,
                         <<"earningsEvents",
                           Arr(Map(shown, LAMBDA item : Pick(item, earningsSummaryFields)))>> >>)))
                  ELSE Return(Json(Arr(Map(shown, LAMBDA item : Pick(item, earningsFields)))))

earnings_calendar_catch(c) ==
  IF c.thrown THEN Return(Sentence(<<"Error in earnings_calendar:">> \o c.message)) ELSE c

earnings_calendar_handler(a, res) == earnings_calendar_catch(earnings_calendar_try(a, res))

\* ------------------------------------------------------------ financial_ratios_ttm, key_metrics_ttm

keyRatioNames ==
  <<"peRatioTTM", "priceToSalesRatioTTM", "priceToBookRatioTTM",
    "priceEarningsToGrowthRatioTTM", "currentRatioTTM", "quickRatioTTM",
    "debtToEquityTTM", "debtToAssetsTTM", "returnOnEquityTTM", "returnOnAssetsTTM",
    "grossProfitMarginTTM", "operatingProfitMarginTTM", "netProfitMarginTTM",
    "dividendYieldTTM", "payoutRatioTTM", "assetTurnoverTTM", "inventoryTurnoverTTM">>

keyMetricNames ==
  <<"revenuePerShareTTM", "netIncomePerShareTTM", "operatingCashFlowPerShareTTM",
    "freeCashFlowPerShareTTM", "marketCapTTM", "enterpriseValueTTM", "peRatioTTM",
    "priceToSalesRatioTTM", "pocfratioTTM", "pfcfRatioTTM", "pbRatioTTM", "ptbRatioTTM",
    "evToSalesTTM", "enterpriseValueOverEBITDATTM", "debtToEquityTTM",
    "debtToAssetsTTM", "netDebtToEBITDATTM", "currentRatioTTM", "dividendYieldTTM",
    "payoutRatioTTM", "roeTTM", "roicTTM">>

\* variant of curatedDictionary that copies a null under a listed key
curatedDictionary_keepNull(all, names, extra) ==
  LET kept == SelectSeq(names, LAMBDA k : HasOwn(all, k))
  IN Obj(Tuple([i \in 1..Len(kept) |-> <<kept[i], Get(all, kept[i])>>])
         \o (IF Truthy(Get(all, extra)) THEN << <<extra, Get(all, extra)>> >> ELSE <<>>))

\* for (const key of names) if (all.hasOwnProperty(key) && all[key] !== null
\*   && all[key] !== undefined) out[key] = all[key];  if (all[extra]) out[extra] = all[extra]
curatedDictionary(all, names, extra) ==
  LET kept == SelectSeq(names, LAMBDA k : HasOwn(all, k) /\ ~IsNullish(Get(all, k)))
  IN Obj(Tuple([i \in 1..Len(kept) |-> <<kept[i], Get(all, kept[i])>>])
         \o (IF Truthy(Get(all, extra)) THEN << <<extra, Get(all, extra)>> >> ELSE <<>>))

summarizedRatios(allRatios) ==
  Obj(<< <<"symbol", Or(Get(allRatios, "symbol"), Str(<<"SYM">>))>>,
         <<"date", Get(allRatios, "date")>>,
         <<"sourceMessage", Str(<<"Showing a curated list of TTM financial ratios.",
                                  ToString(KeyCount(allRatios)), "total ratios fetched.">>)>>,
         <<"ratios", curatedDictionary(allRatios, keyRatioNames, "priceFairValueTTM")>> >>)

financial_ratios_ttm_try(a, res) ==
  IF ~res.ok THEN Throw(res.message, res.body)
  ELSE LET allRatios == FirstOrSelf(res.data)
       IN IF ~Truthy(allRatios) \/ KeyCount(allRatios) = 0
          THEN Return(Sentence(<<"No TTM financial ratios found for the symbol.">>))
          ELSE Return(Json(summarizedRatios(allRatios)))

financial_ratios_ttm_catch(c) ==
  IF c.thrown THEN Return(Sentence(<<"Error in financial_ratios_ttm:">> \o c.message)) ELSE c

financial_ratios_ttm_handler(a, res) ==
  financial_ratios_ttm_catch(financial_ratios_ttm_try(a, res))

summarizedMetrics(allMetrics) ==
  Obj(<< <<"symbol", Or(Get(allMetrics, "symbol"), Str(<<"SYM">>))>>,
         <<"date", Get(allMetrics, "date")>>,
         <<"sourceMessage", Str(<<"Showing a curated list of TTM key metrics.",
                                  ToString(KeyCount(allMetrics)), "total metrics fetched.">>)>>,
         <<"metrics", curatedDictionary(allMetrics, keyMetricNames, "bookValuePerShareTTM")>> >>)

key_metrics_ttm_try(a, res) ==
  IF ~res.ok THEN Throw(res.message, res.body)
  ELSE LET allMetrics == FirstOrSelf(res.data)
       IN IF ~Truthy(allMetrics) \/ KeyCount(allMetrics) = 0
          THEN Return(Sentence(<<"No TTM key metrics found for the symbol.">>))
          ELSE Return(Json(summarizedMetrics(allMetrics)))

key_metrics_ttm_catch(c) ==
  IF c.thrown THEN Return(Sentence(<<"Error in key_metrics_ttm:">> \o c.message)) ELSE c

key_metrics_ttm_handler(a, res) == key_metrics_ttm_catch(key_metrics_ttm_try(a, res))

\* ------------------------------------------------------------ dcf_valuation

\* x.toFixed(2), as the count of hundredths: the nearest, a tie going away from zero
Hundredths(x) ==
  LET q == 100 * Abs(x.n)
      h == (2 * q + x.d) \div (2 * x.d)
  IN IF x.n < 0 THEN -h ELSE h

\* the digits x.toFixed(2) writes
ToFixed2(x) ==
  LET h == Hundredths(x)
  IN (IF x.n < 0 THEN "-" ELSE "") \o ToString(Abs(h) \div 100) \o "."
       \o ToString((Abs(h) % 100) \div 10) \o ToString(Abs(h) % 10)

\* parseFloat(x.toFixed(2))
ParseFixed2(x) == Ratio(Hundredths(x), 100)

\* dcfData["Stock Price"] || dcfData.stockPrice
dcfStockPrice(dcfData) == Or(Get(dcfData, "Stock Price"), Get(dcfData, "stockPrice"))

\* the local potentialUpsidePercent: ((dcfValue - stockPrice) / stockPrice) * 100 if
\* (stockPrice && dcfValue && stockPrice > 0), null otherwise
potentialUpside(stockPrice, dcfValue) ==
  IF Truthy(stockPrice) /\ Truthy(dcfValue) /\ stockPrice.t = "number" /\ stockPrice.n > 0
  THEN (IF dcfValue.t = "number"
        THEN Ratio((dcfValue.n * stockPrice.d - stockPrice.n * dcfValue.d) * 100,
                   dcfValue.d * stockPrice.n)
        ELSE NaN)
  ELSE Null

\* potentialUpsidePercent ? parseFloat(potentialUpsidePercent.toFixed(2)) : null
potentialUpsidePercentField(upside) ==
  IF Truthy(upside) THEN ParseFixed2(upside) ELSE Null

\* the message of the valuation
dcfMessage(upside) ==
  IF upside # Null
  THEN (IF upside.t = "number" /\ upside.d # 0 /\ upside.n > 0
        THEN Str(<<"DCF suggests a potential upside of", ToFixed2(upside), "%.">>)
        ELSE Str(<<"DCF suggests a potential downside of",
                   IF IsNaN(upside) THEN "NaN"
                   ELSE ToFixed2([upside EXCEPT !.n = Abs(upside.n)]), "%.">>))
  ELSE Str(<<"Could not calculate potential upside.">>)

summarizedDcf(dcfData) ==
  LET stockPrice == dcfStockPrice(dcfData)
      dcfValue == Get(dcfData, "dcf")
      upside == potentialUpside(stockPrice, dcfValue)
  IN Obj(<< <<"symbol", Or(Get(dcfData, "symbol"), Str(<<"SYM">>))>>,
            <<"date", Get(dcfData, "date")>>,
            <<"stockPrice", stockPrice>>,
            <<"dcfValue", dcfValue>>,
            <<"currency", Str(<<"USD">>)>>,
            <<"potentialUpsidePercent", potentialUpsidePercentField(upside)>>,
            <<"message", dcfMessage(upside)>> >>)

dcf_valuation_try(a, res) ==
  IF ~res.ok THEN Throw(res.message, res.body)
  ELSE LET dcfData == FirstOrSelf(res.data)
       IN IF ~Truthy(dcfData) \/ KeyCount(dcfData) = 0 \/ ~Truthy(Get(dcfData, "dcf"))
          THEN Return(Sentence(<<"No DCF valuation data found for", "SYM",
                                 ". This might be due to data availability or the company type.">>))
          ELSE Return(Json(summarizedDcf(dcfData)))

\* error.response && error.response.data && error.response.data["Error Message"]
hasProviderMessage(c) ==
  Truthy(c.body) /\ Truthy(Get(c.body, "Error Message"))

dcf_valuation_catch(c) ==
  IF ~c.thrown THEN c
  ELSE IF hasProviderMessage(c)
  THEN Return(Sentence(<<"Error fetching DCF for", "SYM", ":">>
                       \o Text(Get(c.body, "Error Message"))))
  ELSE Return(Sentence(<<"Error in dcf_valuation for", "SYM", ":">> \o c.message
                       \o <<". This could be due to data unavailability for the symbol (e.g., non-US stock, financial institution, or new IPO).">>))

dcf_valuation_handler(a, res) == dcf_valuation_catch(dcf_valuation_try(a, res))

\* ------------------------------------------------------------ dividend_calendar

dividendFields ==
  <<"date", "label", "dividend", "adjDividend", "recordDate", "paymentDate",
    "declarationDate">>

\* [...dividends].sort(newest first)
sortedDividends(dividends) == SortByDate(dividends, TRUE)

dividend_calendar_try(a, res) ==
  IF ~res.ok THEN Throw(res.message, res.body)
  ELSE IF IsNullish(res.data) THEN TypeError
  ELSE LET dividends == Get(res.data, "historical")
       IN IF ~Truthy(dividends) \/ LengthIs0(dividends)
          THEN Return(Sentence(<<"No dividend data found for", "SYM",
                                 ". The company may not pay dividends or data may be unavailable.">>))
          ELSE IF ~IsArray(dividends) \/ \E i \in 1..Len(dividends.a) : IsNullish(dividends.a[i])
          THEN TypeError
          ELSE LET recentDividends ==
                     Map(Slice(sortedDividends(dividends.a), a.limit),
                         LAMBDA div : Pick(div, dividendFields))
               IN IF Len(dividends.a) > Len(recentDividends)
                  THEN Return(Json(Obj(<<
                         <<"message", Str(<<"Displaying", ToString(Len(recentDividends)),
                                            "most recent of", ToString(Len(dividends.a)),
                                            "dividend records fetched for", "SYM", ".">>)>>,
                         <<"dividends", Arr(recentDividends)>> >>)))
                  ELSE Return(Json(Obj(<<
                         <<"message", Str(<<"Found", ToString(Len(dividends.a)),
                                            "dividend records for", "SYM", ".">>)>>,
                         <<"dividends", Arr(recentDividends)>> >>)))

dividend_calendar_catch(c) ==
  IF ~c.thrown THEN c
  ELSE IF hasProviderMessage(c)
  THEN Return(Sentence(<<"Error fetching dividend data for", "SYM", ":">>
                       \o Text(Get(c.body, "Error Message"))))
  ELSE Return(Sentence(<<"Error fetching dividend data for", "SYM", ":">> \o c.message))

dividend_calendar_handler(a, res) == dividend_calendar_catch(dividend_calendar_try(a, res))

\* ------------------------------------------------------------ the pass-through servers

\* the tools of the tool-table server
TableTools ==
  {"search_symbol", "company_profile", "quote", "historical_price", "income_statement",
   "balance_sheet", "cash_flow", "key_metrics", "financial_ratios", "enterprise_value",
   "discounted_cash_flow", "earnings_calendar", "ipo_calendar", "stock_screener",
   "etf_list", "etf_holdings", "mutual_fund_list", "mutual_fund_holdings", "forex_list",
   "crypto_list", "stock_news", "insider_trades", "sec_filings", "analyst_estimates",
   "ratings"}

\* the cases of the switch server
SwitchTools == {"search_symbol", "company_profile", "quote"}

\* try { ... return JSON.stringify(response.data, null, 2) }
passthrough_try(res) ==
  IF ~res.ok THEN Throw(res.message, res.body) ELSE Return(Json(res.data))

\* catch (error) { return `Error: ${error.message}` }
passthrough_catch(c) ==
  IF c.thrown THEN Return(Sentence(<<"Error:">> \o c.message)) ELSE c

passthrough_handler(res) == passthrough_catch(passthrough_try(res))

\* the tool is not in the table / the switch falls to default
unknown_tool == Return(Sentence(<<"Unknown tool">>))

\* ------------------------------------------------------------ upstream answers

\* how many sizes above each threshold the fetched collections take
ExtraRecords == 1
\* half the period of a series that zigzags over a few days (duplicate dates
\* in ascending and descending runs)
NumDays == 4

Orders == {"descending", "ascending", "rotated", "shuffled", "zigzag"}

\* the day of the i-th point of an upstream series of n points
SeriesDay(order, n, i) ==
  CASE order = "descending" -> n + 1 - i
    [] order = "ascending" -> i
    [] order = "rotated" -> ((i + n \div 2) % n) + 1
    [] order = "shuffled" -> ((i * 7) % n) + 1
    [] order = "zigzag" ->
         LET t == i % (2 * NumDays)
         IN IF t <= NumDays THEN t + 1 ELSE 2 * NumDays - t + 1

\* the i-th price bar: low <= open, close <= high, the volume tells the bars apart
Bar(order, n, i) ==
  LET low == 10 + ((i * 3) % 7)
  IN Obj(<< <<"date", DateString(SeriesDay(order, n, i))>>,
            <<"open", Num(low + (i % 2))>>,
            <<"high", Num(low + (i % 4))>>,
            <<"low", Num(low)>>,
            <<"close", Num(low + ((i % 4) \div 2))>>,
            <<"volume", Num(1000 + i)>>,
            <<"adjClose", Num(low)>>,
            <<"label", Str(<<"bar">>)>> >>)

Series(order, n) == Tuple([i \in 1..n |-> Bar(order, n, i)])

SeriesSizes ==
  {1, 2} \cup {k + e : k \in {RECENT_POINTS_TO_SHOW_WITH_SUMMARY, POINTS_THRESHOLD_FOR_SUMMARY,
                              MAX_POINTS_FOR_FULL_DETAIL},
                       e \in 0..ExtraRecords}

\* the shapes the provider wraps a series in
Wrapped(shape, seq) ==
  CASE shape = "array" -> Arr(seq)
    [] shape = "historical" ->
         Obj(<< <<"symbol", Str(<<"SYM">>)>>, <<"historical", Arr(seq)>> >>)
    [] shape = "groups" ->
         Obj(<< <<"g1", Arr(SubSeq(seq, 1, Len(seq) \div 2))>>,
                <<"g2", Arr(SubSeq(seq, Len(seq) \div 2 + 1, Len(seq)))>> >>)

EmptyBodies == {Null, Arr(<<>>), Obj(<<>>)}

ProviderError == Obj(<< <<"Error Message", Str(<<"Invalid API KEY.">>)>> >>)

Failures ==
  { Rejected(<<"Request failed with status code 401">>, ProviderError),
    Rejected(<<"Request failed with status code 500">>, Str(<<"Internal Server Error">>)),
    Rejected(<<"Network Error">>, Undefined) }

HistoricalBodies ==
  EmptyBodies
  \cup {Obj(<< <<"symbol", Str(<<"SYM">>)>>, <<"historical", Arr(<<>>)>> >>)}
  \cup {Bar("descending", 1, 1)}
  \cup {Wrapped(shape, Series(order, n)) :
          shape \in {"array", "historical", "groups"}, order \in Orders, n \in SeriesSizes}

Answers(bodies) == {Resolved(b) : b \in bodies} \cup Failures

\* how many characters above its limit a fetched text takes
ExtraChars == 1

\* a text of len characters
TextOf(len) == Str(Tuple([i \in 1..len |-> <<"a", "b", "c">>[(i % 3) + 1]]))

TextLengths(max) == {0, 1, max - 1, max, 2 * max} \cup {max + e : e \in 1..ExtraChars}

\* a key that is absent (Undefined), or present with the value
Field(k, v) == IF v = Undefined THEN <<>> ELSE << <<k, v>> >>

\* the closes tried at the two ends of a period: absent, null, 0 and a price
EdgeCloses == {Undefined, Null, Num(0), Num(12)}

\* the i-th price bar with the close given
EdgeBar(order, n, i, close) ==
  Obj(<< <<"date", DateString(SeriesDay(order, n, i))>>, <<"open", Num(12)>>,
         <<"high", Num(14)>>, <<"low", Num(0)>> >>
      \o Field("close", close)
      \o << <<"volume", Num(1000 + i)>> >>)

\* a series of n distinct days whose earliest and latest bars have the closes given
EdgeSeries(order, n, first, last) ==
  Tuple([i \in 1..n |->
           CASE SeriesDay(order, n, i) = 1 -> EdgeBar(order, n, i, first)
             [] SeriesDay(order, n, i) = n -> EdgeBar(order, n, i, last)
             [] OTHER -> Bar(order, n, i)])

EdgeBodies ==
  {Arr(EdgeSeries(order, POINTS_THRESHOLD_FOR_SUMMARY + 1, first, last)) :
     order \in {"descending", "rotated"}, first \in EdgeCloses, last \in EdgeCloses}

CollectionSizes(cap) == {1} \cup {cap + e : e \in 0..ExtraRecords}

SearchItem(i) ==
  Obj(<< <<"symbol", Str(<<"S", ToString(i)>>)>>, <<"name", Str(<<"Company", ToString(i)>>)>>,
         <<"currency", Str(<<"USD">>)>>, <<"stockExchange", Str(<<"NASDAQ Global Select">>)>>,
         <<"exchangeShortName", Str(<<"NASDAQ">>)>> >>)

SearchBodies ==
  EmptyBodies \cup {Arr(Tuple([i \in 1..n |-> SearchItem(i)])) :
                      n \in CollectionSizes(SEARCH_MAX_RESULTS_TO_LLM)}

Profile(description, mktCap) ==
  Obj(<< <<"symbol", Str(<<"SYM">>)>>, <<"price", Num(187)>>, <<"beta", Num(1)>>,
         <<"volAvg", Num(0)>>, <<"lastDiv", Null>> >>
      \o Field("mktCap", mktCap)
      \o << <<"companyName", Str(<<"Company">>)>>, <<"currency", Str(<<"USD">>)>>,
            <<"exchangeShortName", Str(<<"NASDAQ">>)>>, <<"industry", Str(<<"Software">>)>>,
            <<"website", Str(<<"https://example.com">>)>> >>
      \o Field("description", description)
      \o << <<"ceo", Str(<<"A. Person">>)>>, <<"image", Str(<<"logo.png">>)>>,
            <<"isActivelyTrading", Bool(TRUE)>> >>)

Profiles ==
  {Profile(d, c) :
     d \in {Undefined, Null} \cup {TextOf(len) : len \in TextLengths(DESCRIPTION_MAX_LENGTH)},
     c \in {Undefined, Null, Num(0), Num(5000)}}

\* a single record arrives as an array of one, or as the object itself
OneRecord(records) == {Arr(<<r>>) : r \in records} \cup records

ProfileBodies == EmptyBodies \cup OneRecord(Profiles)

Quote(pe, marketCap) ==
  Obj(<< <<"symbol", Str(<<"SYM">>)>>, <<"name", Str(<<"Company">>)>>, <<"price", Num(187)>>,
         <<"changesPercentage", Num(0)>>, <<"change", Num(-2)>>, <<"dayLow", Num(180)>>,
         <<"dayHigh", Num(190)>>, <<"exchange", Str(<<"NASDAQ">>)>>,
         <<"volume", Num(1000)>>, <<"open", Num(185)>>, <<"previousClose", Num(189)>>,
         <<"eps", Null>>, <<"timestamp", Num(1700000000)>> >>
      \o Field("pe", pe) \o Field("marketCap", marketCap))

Quotes == {Quote(pe, c) : pe \in {Undefined, Null, Num(30)}, c \in {Undefined, Num(5000)}}

QuoteBodies == EmptyBodies \cup OneRecord(Quotes)

IndicatorTypes == {"SMA", "Rsi"}

\* the i-th indicator value of n, under the key the provider names it by
IndicatorItem(order, n, i, key) ==
  Obj(<< <<"date", DateString(SeriesDay(order, n, i))>>, <<"close", Num(100 + i)>>,
         <<key, Num(i % 3)>> >>)

IndicatorBodies ==
  EmptyBodies
  \cup {Obj(<< <<"Error Message", Str(<<"Limit reached.">>)>> >>)}
  \cup {Arr(Tuple([i \in 1..n |-> IndicatorItem(order, n, i, key)])) :
          order \in {"descending", "ascending"}, n \in CollectionSizes(RECENT_VALUES_COUNT),
          key \in {"sma", "SMA", "rsi", "indicatorValue", "value"}}

Estimate(i) ==
  Obj(<< <<"symbol", Str(<<"SYM">>)>>, <<"date", DateString(10 - i)>>,
         <<"estimatedRevenueAvg", Num(1000 * i)>>, <<"estimatedEpsAvg", Num(i)>>,
         <<"numberAnalystsEstimatedEps", Num(7)>> >>)

EstimatesBodies ==
  EmptyBodies \cup {Arr(Tuple([i \in 1..n |-> Estimate(i)])) :
                      n \in CollectionSizes(RECENT_ESTIMATES_COUNT)}

PriceTarget ==
  Obj(<< <<"symbol", Str(<<"SYM">>)>>, <<"lastUpdated", DateString(9)>>,
         <<"targetHigh", Num(250)>>, <<"targetLow", Num(150)>>,
         <<"targetConsensus", Num(200)>>, <<"targetMedian", Num(205)>> >>)

PriceTargetBodies == EmptyBodies \cup OneRecord({PriceTarget})

\* the texts of the fetched articles take these lengths in turn (-1: no text)
ArticleTextLength(i) ==
  LET lens == <<SNIPPET_MAX_LENGTH + 1, 0, SNIPPET_MAX_LENGTH, -1, SNIPPET_MAX_LENGTH - 1,
                2 * SNIPPET_MAX_LENGTH, SNIPPET_MAX_LENGTH + ExtraChars>>
  IN lens[((i - 1) % Len(lens)) + 1]

Article(order, n, i) ==
  Obj(<< <<"symbol", Str(<<"SYM">>)>>, <<"publishedDate", DateString(SeriesDay(order, n, i))>>,
         <<"title", Str(<<"Headline", ToString(i)>>)>>, <<"image", Str(<<"i.png">>)>>,
         <<"site", Str(<<"example.com">>)>>,
         <<"text", IF ArticleTextLength(i) < 0 THEN Null ELSE TextOf(ArticleTextLength(i))>>,
         <<"url", Str(<<"https://example.com/", ToString(i)>>)>> >>)

NewsSizes ==
  {1} \cup {cap + e : cap \in {ARTICLES_FOR_SUMMARY, ARTICLES_FOR_FULL_DETAIL},
                      e \in 0..ExtraRecords + 1}

NewsBodies ==
  EmptyBodies \cup {Arr(Tuple([i \in 1..n |-> Article(order, n, i)])) :
                      order \in {"descending", "ascending", "shuffled"}, n \in NewsSizes}

EarningsItem(i) ==
  Obj(<< <<"date", DateString(i)>>, <<"symbol", Str(<<"S", ToString(i)>>)>>,
         <<"eps", Null>>, <<"epsEstimated", Num(i)>>, <<"time", Str(<<"amc">>)>>,
         <<"revenue", Null>>, <<"revenueEstimated", Num(100 * i)>>,
         <<"fiscalDateEnding", DateString(i)>>, <<"updatedFromDate", DateString(i)>> >>)

EarningsBodies ==
  EmptyBodies \cup {Arr(Tuple([i \in 1..n |-> EarningsItem(i)])) :
                      n \in CollectionSizes(EARNINGS_MAX_RESULTS_TO_LLM)}

\* a TTM record: a listed key with a value, one with 0, one with null, one
\* outside the list, and the extra key
TtmRecord(listed, zero, null, extra, extraValue) ==
  Obj(<< <<listed, Num(25)>>, <<zero, Num(0)>>, <<null, Null>>,
         <<"cashPerShareTTM", Num(4)>> >>
      \o Field(extra, extraValue))

RatioBodies ==
  EmptyBodies
  \cup OneRecord({TtmRecord("peRatioTTM", "dividendYieldTTM", "payoutRatioTTM",
                            "priceFairValueTTM", v) : v \in {Undefined, Null, Num(0), Num(3)}})

MetricBodies ==
  EmptyBodies
  \cup OneRecord({TtmRecord("roeTTM", "dividendYieldTTM", "roicTTM",
                            "bookValuePerShareTTM", v) : v \in {Undefined, Null, Num(0), Num(3)}})

DcfValues == {Undefined, Null, Num(0), Num(80), Num(100), Num(150), Num(-50), Num(30001)}

PriceValues == {Undefined, Null, Num(0), Num(3), Num(100), Num(30000)}

DcfRecord(dcf, spaced, camel) ==
  Obj(<< <<"symbol", Str(<<"SYM">>)>>, <<"date", DateString(5)>> >>
      \o Field("dcf", dcf) \o Field("Stock Price", spaced) \o Field("stockPrice", camel))

DcfBodies ==
  EmptyBodies
  \cup {DcfRecord(d, s, c) : d \in DcfValues, s \in PriceValues, c \in {Undefined, Num(100)}}
  \cup {Arr(<<DcfRecord(d, s, Undefined)>>) : d \in DcfValues, s \in {Num(0), Num(100)}}

Dividend(order, n, i) ==
  Obj(<< <<"date", DateString(SeriesDay(order, n, i))>>, <<"label", Str(<<"div", ToString(i)>>)>>,
         <<"adjDividend", Num(i)>>, <<"dividend", Num(i)>>, <<"recordDate", Null>>,
         <<"paymentDate", DateString(SeriesDay(order, n, i) + 1)>> >>)

DividendLimits == {2, 10}

DividendBodies ==
  EmptyBodies
  \cup {Obj(<< <<"symbol", Str(<<"SYM">>)>>, <<"historical", h>> >>) :
          h \in {Arr(<<>>), Null}}
  \cup {Obj(<< <<"symbol", Str(<<"SYM">>)>>,
               <<"historical", Arr(Tuple([i \in 1..n |-> Dividend(order, n, i)]))>> >>) :
          order \in {"descending", "ascending", "shuffled"},
          n \in {1} \cup {cap + e : cap \in DividendLimits, e \in 0..ExtraRecords}}

PassthroughBodies == EmptyBodies \cup OneRecord({Quote(Num(30), Num(5000))})

\* ------------------------------------------------------------ the invocation

VARIABLES pc, server, tool, args, requests, urls, responses, result

vars == <<pc, server, tool, args, requests, urls, responses, result>>

NoArgs == [detail |-> "summary", limit |-> 10, symbol |-> TRUE, indicator_type |-> "SMA"]

NoResult == [content |-> <<>>]

Init ==
  /\ pc = "idle"
  /\ server = "none"
  /\ tool = "none"
  /\ args = NoArgs
  /\ requests = <<>>
  /\ urls = <<>>
  /\ responses = <<>>
  /\ result = NoResult

\* the handler ends: it returns its value, or its exception escapes
Complete(c) ==
  /\ pc' = IF c.thrown THEN "threw" ELSE "done"
  /\ result' = c.value

CuratedTools ==
  {"search_symbol", "company_profile", "quote", "historical_stock_data",
   "technical_indicator", "analyst_estimates", "stock_news", "earnings_calendar",
   "financial_ratios_ttm", "key_metrics_ttm", "dcf_valuation", "dividend_calendar"}

\* the arguments a tool reads (the validated parameters, defaults applied)
CuratedArgs(name) ==
  CASE name \in {"historical_stock_data", "stock_news"} ->
         {[NoArgs EXCEPT !.detail = d] : d \in {"summary", "full"}}
    [] name = "technical_indicator" ->
         {[NoArgs EXCEPT !.indicator_type = t] : t \in IndicatorTypes}
    [] name = "earnings_calendar" -> {[NoArgs EXCEPT !.symbol = b] : b \in BOOLEAN}
    [] name = "dividend_calendar" -> {[NoArgs EXCEPT !.limit = l] : l \in DividendLimits}
    [] OTHER -> {NoArgs}

\* endpoint.includes("?")
includesQuery(endpoint) == \E i \in 1..Len(endpoint) : endpoint[i] = "?"

\* endpoint.includes("?") ? "&" : "?"
apikeySeparator(endpoint) == IF includesQuery(endpoint) THEN "&" ELSE "?"

\* `${BASE_URL}${endpoint}${separator}apikey=${API_KEY}`, as the sequence of
\* its parts: the path, then each "?" or "&" and the parameter it introduces
Url(endpoint, separator) == <<"BASE_URL">> \o endpoint \o <<separator, "apikey=">>

\* the endpoints a tool of the curating server builds from its arguments
curatedEndpoints(name, a) ==
  CASE name = "search_symbol" -> {<<"/search", "?", "query=", "&", "limit=">>}
    [] name = "company_profile" -> {<<"/profile/SYM">>}
    [] name = "quote" -> {<<"/quote/SYM">>}
    [] name = "historical_stock_data" ->
         {<<"/historical-price-full/SYM", "?", "from=", "&", "to=">>,
          <<"/historical-chart/INTERVAL/SYM", "?", "last=">>}
    [] name = "technical_indicator" ->
         {<<"/technical_indicator/INTERVAL/SYM", "?", "type=", "&", "period=">>}
    [] name = "analyst_estimates" -> {<<"/analyst-estimates/SYM">>}
    [] name = "stock_news" -> {<<"/stock_news", "?", "tickers=", "&", "limit=">>}
    [] name = "earnings_calendar" ->
         {<<"/earning_calendar">> \o (IF a.symbol THEN <<"?", "symbol=">> ELSE <<>>)}
    [] name = "financial_ratios_ttm" -> {<<"/ratios-ttm/SYM">>}
    [] name = "key_metrics_ttm" -> {<<"/key-metrics-ttm/SYM">>}
    [] name = "dcf_valuation" -> {<<"/dcf/SYM">>}
    [] name = "dividend_calendar" -> {<<"/historical-price-full/stock_dividend/SYM">>}

\* what a tool of the curating server writes between its endpoint and apikey
curatedSeparator(name, endpoint) ==
  CASE name \in {"search_symbol", "company_profile", "quote", "historical_stock_data",
                 "earnings_calendar"} -> apikeySeparator(endpoint)
    [] name \in {"technical_indicator", "stock_news"} -> "&"
    [] OTHER -> "?"

\* the endpoint of the second request of analyst_estimates
priceTargetEndpoint == <<"/price-target-summary/SYM">>

\* tool.endpoint(args) of the tool-table server
tableEndpoints(name) ==
  CASE name = "search_symbol" -> {<<"/search", "?", "query=">>}
    [] name = "company_profile" -> {<<"/profile/SYM">>}
    [] name = "quote" -> {<<"/quote/SYM">>}
    [] name = "historical_price" ->
         {<<"/historical-price-full/SYM", "?", "from=", "&", "to=">>}
    [] name = "income_statement" -> {<<"/income-statement/SYM", "?", "period=">>}
    [] name = "balance_sheet" -> {<<"/balance-sheet-statement/SYM", "?", "period=">>}
    [] name = "cash_flow" -> {<<"/cash-flow-statement/SYM", "?", "period=">>}
    [] name = "key_metrics" -> {<<"/key-metrics/SYM", "?", "period=">>}
    [] name = "financial_ratios" -> {<<"/ratios/SYM", "?", "period=">>}
    [] name = "enterprise_value" -> {<<"/enterprise-values/SYM", "?", "period=">>}
    [] name = "discounted_cash_flow" -> {<<"/discounted-cash-flow/SYM">>}
    [] name = "earnings_calendar" -> {<<"/earning_calendar", "?", "from=", "&", "to=">>}
    [] name = "ipo_calendar" -> {<<"/ipo_calendar", "?", "from=", "&", "to=">>}
    [] name = "stock_screener" ->
         {<<"/stock-screener">>,
          <<"/stock-screener", "?", "sector=">>,
          <<"/stock-screener", "?", "marketCapMoreThan=", "&", "exchange=">>}
    [] name = "etf_list" -> {<<"/etf/list">>}
    [] name = "etf_holdings" -> {<<"/etf-holder", "?", "symbol=">>}
    [] name = "mutual_fund_list" -> {<<"/mutual-fund/list">>}
    [] name = "mutual_fund_holdings" -> {<<"/mutual-fund-holder", "?", "symbol=">>}
    [] name = "forex_list" -> {<<"/forex">>}
    [] name = "crypto_list" -> {<<"/cryptocurrencies">>}
    [] name = "stock_news" ->
         {<<"/stock_news", "?", "tickers=">>,
          <<"/stock_news", "?", "tickers=", "&", "limit=">>}
    [] name = "insider_trades" -> {<<"/insider-trading", "?", "symbol=">>}
    [] name = "sec_filings" -> {<<"/sec_filings/SYM">>}
    [] name = "analyst_estimates" -> {<<"/analyst-estimates/SYM">>}
    [] name = "ratings" -> {<<"/rating/SYM">>}

\* the switch over the tool name of the switch server
switchEndpoint(name) ==
  CASE name = "search_symbol" -> <<"/search", "?", "query=">>
    [] name = "company_profile" -> <<"/profile/SYM">>
    [] name = "quote" -> <<"/quote/SYM">>

\* the endpoint a tool asks first
Endpoint(name) == IF name = "analyst_estimates" THEN "analyst-estimates" ELSE name

\* the transport calls a tool of the curating server: the handler builds the
\* url and awaits axios.get
Call ==
  /\ pc = "idle"
  /\ \E name \in CuratedTools :
       /\ server' = "curated"
       /\ tool' = name
       /\ \E a \in CuratedArgs(name) : args' = a
       /\ requests' = <<Endpoint(name)>>
       /\ \E endpoint \in curatedEndpoints(name, args') :
            urls' = <<Url(endpoint, curatedSeparator(name, endpoint))>>
  /\ pc' = "awaiting"
  /\ UNCHANGED <<responses, result>>

\* the handler of tool name awaits its request
Awaiting(name) == pc = "awaiting" /\ server = "curated" /\ tool = name

\* variant of Answer that asks again after a rejected request
Answer_retry(res, c) ==
  IF ~res.ok /\ Len(requests) < 2
  THEN /\ responses' = Append(responses, res)
       /\ requests' = Append(requests, requests[Len(requests)])
       /\ urls' = Append(urls, urls[Len(urls)])
       /\ UNCHANGED <<pc, result, server, tool, args>>
  ELSE /\ responses' = Append(responses, res)
       /\ Complete(c)
       /\ UNCHANGED <<server, tool, args, requests, urls>>

\* the answer res arrives and the handler runs to its end c
Answer(res, c) ==
  /\ responses' = Append(responses, res)
  /\ Complete(c)
  /\ UNCHANGED <<server, tool, args, requests, urls>>

search_symbol ==
  /\ Awaiting("search_symbol")
  /\ \E res \in Answers(SearchBodies) : Answer(res, search_symbol_handler(args, res))

company_profile ==
  /\ Awaiting("company_profile")
  /\ \E res \in Answers(ProfileBodies) : Answer(res, company_profile_handler(args, res))

quote ==
  /\ Awaiting("quote")
  /\ \E res \in Answers(QuoteBodies) : Answer(res, quote_handler(args, res))

historical_stock_data ==
  /\ Awaiting("historical_stock_data")
  /\ \E res \in Answers(HistoricalBodies \cup EdgeBodies) :
       Answer(res, historical_stock_data_handler(args, res))

technical_indicator ==
  /\ Awaiting("technical_indicator")
  /\ \E res \in Answers(IndicatorBodies) : Answer(res, technical_indicator_handler(args, res))

stock_news ==
  /\ Awaiting("stock_news")
  /\ \E res \in Answers(NewsBodies) : Answer(res, stock_news_handler(args, res))

earnings_calendar ==
  /\ Awaiting("earnings_calendar")
  /\ \E res \in Answers(EarningsBodies) : Answer(res, earnings_calendar_handler(args, res))

financial_ratios_ttm ==
  /\ Awaiting("financial_ratios_ttm")
  /\ \E res \in Answers(RatioBodies) : Answer(res, financial_ratios_ttm_handler(args, res))

key_metrics_ttm ==
  /\ Awaiting("key_metrics_ttm")
  /\ \E res \in Answers(MetricBodies) : Answer(res, key_metrics_ttm_handler(args, res))

dcf_valuation ==
  /\ Awaiting("dcf_valuation")
  /\ \E res \in Answers(DcfBodies) : Answer(res, dcf_valuation_handler(args, res))

dividend_calendar ==
  /\ Awaiting("dividend_calendar")
  /\ \E res \in Answers(DividendBodies) : Answer(res, dividend_calendar_handler(args, res))

\* analyst_estimates, first await: a rejection goes to the catch, an answer
\* lets the handler ask for the price-target summary
analyst_estimates_estimates ==
  /\ Awaiting("analyst_estimates")
  /\ \E res \in Answers(EstimatesBodies) :
       /\ responses' = <<res>>
       /\ IF res.ok
          THEN /\ pc' = "awaiting_second"
               /\ requests' = Append(requests, "price-target-summary")
               /\ urls' = Append(urls, Url(priceTargetEndpoint, "?"))
               /\ UNCHANGED result
          ELSE /\ Complete(analyst_estimates_handler(args, res, res))
               /\ UNCHANGED <<requests, urls>>
  /\ UNCHANGED <<server, tool, args>>

\* analyst_estimates, second await, and the rest of the handler
analyst_estimates_price_target ==
  /\ pc = "awaiting_second" /\ server = "curated" /\ tool = "analyst_estimates"
  /\ \E res \in Answers(PriceTargetBodies) :
       Answer(res, analyst_estimates_handler(args, responses[1], res))

\* call_tool of the tool-table server: a name outside the table is answered
\* at once, any other is requested upstream
table_call_tool ==
  /\ pc = "idle"
  /\ \E name \in TableTools \cup {"no_such_tool"} :
       /\ server' = "table"
       /\ tool' = name
       /\ IF name \in TableTools
          THEN /\ pc' = "awaiting"
               /\ requests' = <<name>>
               /\ \E endpoint \in tableEndpoints(name) :
                    urls' = <<Url(endpoint, apikeySeparator(endpoint))>>
               /\ UNCHANGED result
          ELSE /\ Complete(unknown_tool)
               /\ UNCHANGED <<requests, urls>>
  /\ UNCHANGED <<args, responses>>

table_call_tool_answer ==
  /\ pc = "awaiting" /\ server = "table"
  /\ \E res \in Answers(PassthroughBodies) : Answer(res, passthrough_handler(res))

\* call_tool of the switch server: the default case is answered at once
switch_call_tool ==
  /\ pc = "idle"
  /\ \E name \in SwitchTools \cup {"no_such_tool"} :
       /\ server' = "switch"
       /\ tool' = name
       /\ IF name \in SwitchTools
          THEN /\ pc' = "awaiting"
               /\ requests' = <<name>>
               /\ urls' = <<Url(switchEndpoint(name), "&")>>
               /\ UNCHANGED result
          ELSE /\ Complete(unknown_tool)
               /\ UNCHANGED <<requests, urls>>
  /\ UNCHANGED <<args, responses>>

switch_call_tool_answer ==
  /\ pc = "awaiting" /\ server = "switch"
  /\ \E res \in Answers(PassthroughBodies) : Answer(res, passthrough_handler(res))

\* the invocation is over; nothing is kept for the next one
Finish ==
  /\ pc \in {"done", "threw"}
  /\ pc' = "idle"
  /\ server' = "none"
  /\ tool' = "none"
  /\ args' = NoArgs
  /\ requests' = <<>>
  /\ urls' = <<>>
  /\ responses' = <<>>
  /\ result' = NoResult

Next ==
  \/ Call
  \/ search_symbol
  \/ company_profile
  \/ quote
  \/ historical_stock_data
  \/ technical_indicator
  \/ analyst_estimates_estimates
  \/ analyst_estimates_price_target
  \/ stock_news
  \/ earnings_calendar
  \/ financial_ratios_ttm
  \/ key_metrics_ttm
  \/ dcf_valuation
  \/ dividend_calendar
  \/ table_call_tool
  \/ table_call_tool_answer
  \/ switch_call_tool
  \/ switch_call_tool_answer
  \/ Finish

Spec == Init /\ [][Next]_vars

\* ------------------------------------------------------------ properties

\* the invocation of tool name has returned after the upstream answered with a body
Answered(name) ==
  pc = "done" /\ server = "curated" /\ tool = name /\ responses[Len(responses)].ok

\* the JSON document of the returned text
Payload == result.content[1].text.json

\* the points of the fetched series, in upstream order
FetchedSeries ==
  LET d == responses[1].data
  IN CASE d.t = "array" -> d.a
       [] d.t = "object" /\ HasOwn(d, "historical") -> Get(d, "historical").a
       [] d.t = "object" /\ (\A i \in 1..Len(d.a) : IsArray(d.a[i])) -> Flat(d.a)
       [] OTHER -> <<>>

Day(p) == Get(p, "date").n

OhlcvKeys == <<"date", "open", "high", "low", "close", "volume">>

\* q is the OHLCV projection of the fetched point p
ProjectionOf(q, p) ==
  /\ q.t = "object"
  /\ q.s = SelectSeq(OhlcvKeys, LAMBDA k : Get(p, k) # Undefined)
  /\ \A i \in 1..Len(OhlcvKeys) : Get(q, OhlcvKeys[i]) = Get(p, OhlcvKeys[i])

\* shown lists projections of distinct fetched points, and every fetched point
\* left out is no newer than any point shown
MostRecentOf(shown, fetched) ==
  /\ \A i \in 1..Len(shown) : \E j \in 1..Len(fetched) : ProjectionOf(shown[i], fetched[j])
  /\ \A i, j \in 1..Len(shown) : i # j => Get(shown[i], "volume") # Get(shown[j], "volume")
  /\ \A j \in 1..Len(fetched) :
       (\A i \in 1..Len(shown) : Get(shown[i], "volume") # Get(fetched[j], "volume"))
         => \A i \in 1..Len(shown) : Day(fetched[j]) <= Day(shown[i])

NewestFirst(seq) == \A i \in 1..Len(seq) - 1 : Day(seq[i]) >= Day(seq[i + 1])

FullHistory == Answered("historical_stock_data") /\ args.detail = "full" /\ Len(FetchedSeries) > 0

SummaryHistory == Answered("historical_stock_data") /\ args.detail = "summary" /\ Len(FetchedSeries) > 0

\* C2: in full detail a non-empty series of N points comes back as the
\* min(N, 150) most recent points by date, newest first, each projected to
\* date/open/high/low/close/volume, whatever the upstream order
C2_FullDetailMostRecent ==
  FullHistory =>
    LET data == Get(Payload, "data").a
    IN /\ Len(data) = Min(Len(FetchedSeries), MAX_POINTS_FOR_FULL_DETAIL)
       /\ NewestFirst(data)
       /\ MostRecentOf(data, FetchedSeries)

\* a series longer than the cap whose upstream order is not newest first
C2_Witness ==
  /\ FullHistory
  /\ Len(FetchedSeries) > MAX_POINTS_FOR_FULL_DETAIL
  /\ ~NewestFirst(FetchedSeries)
  /\ Len(Get(Payload, "data").a) = MAX_POINTS_FOR_FULL_DETAIL

DigestKeys ==
  {"periodStartDate", "periodEndDate", "startPrice", "endPrice", "periodHigh",
   "periodLow", "priceChangePercent", "recentData"}

\* C3: in summary detail a series of 1..60 points comes back whole: exactly N
\* projected points under data, and no digest field in the envelope
C3_SmallSeriesWhole ==
  (SummaryHistory /\ Len(FetchedSeries) <= POINTS_THRESHOLD_FOR_SUMMARY) =>
    LET data == Get(Payload, "data").a
    IN /\ Len(data) = Len(FetchedSeries)
       /\ MostRecentOf(data, FetchedSeries)
       /\ \A k \in DigestKeys : ~HasOwn(Payload, k)

\* a series of exactly 60 points in summary detail
C3_Witness ==
  /\ SummaryHistory
  /\ Len(FetchedSeries) = POINTS_THRESHOLD_FOR_SUMMARY
  /\ Len(Get(Payload, "data").a) = POINTS_THRESHOLD_FOR_SUMMARY

Digest == SummaryHistory /\ Len(FetchedSeries) > POINTS_THRESHOLD_FOR_SUMMARY

\* C4: the digest of more than 60 points has periodHigh >= periodLow and a
\* recentData of exactly min(N, 5) points, newest first
C4_DigestRangeAndRecent ==
  Digest =>
    /\ Get(Payload, "periodHigh").t = "number" /\ Get(Payload, "periodLow").t = "number"
    /\ Get(Payload, "periodHigh").n >= Get(Payload, "periodLow").n
    /\ Len(Get(Payload, "recentData").a)
         = Min(Len(FetchedSeries), RECENT_POINTS_TO_SHOW_WITH_SUMMARY)
    /\ NewestFirst(Get(Payload, "recentData").a)
    /\ MostRecentOf(Get(Payload, "recentData").a, FetchedSeries)

\* a digest of a series that is not newest first upstream and spans several days
C4_Witness ==
  /\ Digest
  /\ ~NewestFirst(FetchedSeries)
  /\ Len(Get(Payload, "recentData").a) = RECENT_POINTS_TO_SHOW_WITH_SUMMARY
  /\ Get(Payload, "periodHigh").n > Get(Payload, "periodLow").n

\* C5: the digest's periodStartDate is the earliest and periodEndDate the latest
\* date of the fetched points, wherever those points stand in the upstream array
C5_DigestPeriodByDate ==
  Digest =>
    /\ \E j \in 1..Len(FetchedSeries) :
         Get(FetchedSeries[j], "date") = Get(Payload, "periodStartDate")
    /\ \E j \in 1..Len(FetchedSeries) :
         Get(FetchedSeries[j], "date") = Get(Payload, "periodEndDate")
    /\ \A j \in 1..Len(FetchedSeries) :
         /\ Get(Payload, "periodStartDate").n <= Day(FetchedSeries[j])
         /\ Day(FetchedSeries[j]) <= Get(Payload, "periodEndDate").n

\* a digest of a series with duplicate dates in mixed runs, whose earliest and
\* latest points stand at neither end of the upstream array
C5_Witness ==
  /\ Digest
  /\ \E i, j \in 1..Len(FetchedSeries) : i # j /\ Day(FetchedSeries[i]) = Day(FetchedSeries[j])
  /\ \E i \in 2..Len(FetchedSeries) - 1 :
       /\ Day(FetchedSeries[i - 1]) < Day(FetchedSeries[i])
       /\ Day(FetchedSeries[i]) > Day(FetchedSeries[i + 1])
  /\ LET n == Len(FetchedSeries)
     IN /\ Day(FetchedSeries[1]) \notin {Get(Payload, "periodStartDate").n,
                                         Get(Payload, "periodEndDate").n}
        /\ Day(FetchedSeries[n]) \notin {Get(Payload, "periodStartDate").n,
                                         Get(Payload, "periodEndDate").n}

\* the text of the returned content item
ResultText == result.content[1].text

ErrorPrefixes ==
  {"Error in search_symbol:", "Error in company_profile:", "Error in quote:",
   "Error fetching historical_stock_data:", "Error in technical_indicator:",
   "Error in analyst_estimates:", "Error fetching stock_news:",
   "Error in earnings_calendar:", "Error in financial_ratios_ttm:",
   "Error in key_metrics_ttm:", "Error fetching DCF for", "Error in dcf_valuation for",
   "Error fetching dividend data for", "Error:"}

\* the text was written by a catch block
IsErrorText(t) == t.form = "sentence" /\ t.line[1] \in ErrorPrefixes

NoDataPrefixes ==
  {"No symbols found matching your query.",
   "No company profile data found for the symbol.",
   "No quote data found for the symbol.",
   "No historical data found for the given parameters.",
   "No historical data points found after processing.",
   "No",
   "No analyst estimates or price target data found for the symbol.",
   "No news found for the given symbol(s).",
   "No earnings calendar data found for the given parameters.",
   "No TTM financial ratios found for the symbol.",
   "No TTM key metrics found for the symbol.",
   "No DCF valuation data found for",
   "No dividend data found for"}

\* the text is a sentence saying that nothing was found
IsNoDataText(t) == t.form = "sentence" /\ t.line[1] \in NoDataPrefixes

\* C1: every invocation that ends returns a content list of exactly one item
\* of type text, and no exception leaves a handler
C1_OneTextItem ==
  /\ pc # "threw"
  /\ pc = "done" =>
       /\ Len(result.content) = 1
       /\ result.content[1].type = "text"
       /\ result.content[1].text.form \in {"sentence", "json"}

\* the curation of an answered request threw, and the catch turned it into text
C1_Witness ==
  /\ pc = "done" /\ server = "curated" /\ tool = "historical_stock_data"
  /\ responses[1].ok
  /\ IsErrorText(ResultText)

\* the text a fetched text is to come back as under the limit max and the marker
Truncated(text, max, marker) ==
  IF text.t = "string" /\ Len(text.s) > max
  THEN Str(SubSeq(text.s, 1, max) \o marker)
  ELSE text

\* the fetched record of a one-record family
FetchedRecord == FirstOrSelf(responses[1].data)

\* the articles in the payload of stock_news
ShownArticles == IF Payload.t = "array" THEN Payload.a ELSE Get(Payload, "articles").a

\* C6: a fetched text comes back unchanged when absent, null or within the
\* limit, and as its first maxLen characters plus the one truncation marker
\* "... (truncated)" when longer (description: 300, snippet: 200)
C6_OneTruncationMarker ==
  /\ (Answered("company_profile") /\ ResultText.form = "json") =>
       Get(Payload, "description")
         = Truncated(Get(FetchedRecord, "description"), DESCRIPTION_MAX_LENGTH,
                     descriptionMarker)
  /\ (Answered("stock_news") /\ ResultText.form = "json") =>
       \A i \in 1..Len(ShownArticles) :
         Get(ShownArticles[i], "snippet")
           = Truncated(Get(responses[1].data.a[i], "text"), SNIPPET_MAX_LENGTH,
                       descriptionMarker)

\* C7: of N fetched articles stock_news shows the first min(N, 3) in summary
\* and the first min(N, 10) in full detail, and its message states both counts
C7_NewsCount ==
  (Answered("stock_news") /\ ResultText.form = "json") =>
    LET fetched == responses[1].data.a
        cap == IF args.detail = "full" THEN ARTICLES_FOR_FULL_DETAIL
               ELSE ARTICLES_FOR_SUMMARY
    IN /\ Len(ShownArticles) = Min(Len(fetched), cap)
       /\ \A i \in 1..Len(ShownArticles) :
            /\ Get(ShownArticles[i], "title") = Get(fetched[i], "title")
            /\ Get(ShownArticles[i], "url") = Get(fetched[i], "url")
       /\ Len(fetched) > cap =>
            /\ HasOwn(Payload, "message")
            /\ Get(Payload, "message").s[2] = ToString(cap)
            /\ Get(Payload, "message").s[4] = ToString(Len(fetched))

\* 12 articles fetched, summary detail: 3 shown and the message says 3 of 12
C7_Witness ==
  /\ Answered("stock_news") /\ args.detail = "summary"
  /\ Len(responses[1].data.a) = 12
  /\ Len(ShownArticles) = 3
  /\ Get(Payload, "message").s[2] = "3" /\ Get(Payload, "message").s[4] = "12"

\* C8: when every upstream body of an invocation is empty (null, [] or {}),
\* the curating server returns a no-data sentence
C8_EmptyIsNoData ==
  (/\ pc = "done" /\ server = "curated"
   /\ \A i \in 1..Len(responses) : responses[i].ok /\ responses[i].data \in EmptyBodies)
    => IsNoDataText(ResultText)

CouldNotCalculate == Str(<<"Could not calculate potential upside.">>)

\* C9: in a valuation with stockPrice > 0, potentialUpsidePercent is
\* (dcfValue - stockPrice) / stockPrice * 100 to 2 decimals (0 when they are
\* equal), the message says upside when it is positive and downside when
\* negative; with stockPrice 0 or absent it is null and the message says it
\* could not be calculated
C9_DcfUpside ==
  (Answered("dcf_valuation") /\ ResultText.form = "json") =>
    LET price == Get(Payload, "stockPrice")
        dcf == Get(Payload, "dcfValue")
        field == Get(Payload, "potentialUpsidePercent")
        message == Get(Payload, "message")
    IN IF price.t = "number" /\ price.n > 0
       THEN /\ field = ParseFixed2(Ratio((dcf.n * price.d - price.n * dcf.d) * 100,
                                         dcf.d * price.n))
            /\ field.n > 0 => message.s[1] = "DCF suggests a potential upside of"
            /\ field.n < 0 => message.s[1] = "DCF suggests a potential downside of"
       ELSE (price = Undefined \/ price = Num(0)) =>
              field = Null /\ message = CouldNotCalculate

\* the curating server answered with a JSON document
Curated(name) == Answered(name) /\ ResultText.form = "json"

\* the records listed in the payload, bare or under the key of its envelope
Listed(key) == IF Payload.t = "array" THEN Payload.a ELSE Get(Payload, key).a

\* every record of seq is its own projection
EachFixedBy(seq, projection(_)) ==
  \A i \in 1..Len(seq) : Stringify(projection(seq[i])) = seq[i]

\* the object o without the key k
Without(o, k) ==
  LET kept == SelectSeq(Tuple([i \in 1..Len(o.s) |-> i]), LAMBDA i : o.s[i] # k)
  IN Obj(Tuple([i \in 1..Len(kept) |-> <<o.s[kept[i]], o.a[kept[i]]>>]))

\* the points shown in the payload of historical_stock_data
ShownPoints ==
  IF HasOwn(Payload, "data") THEN Get(Payload, "data").a ELSE Get(Payload, "recentData").a

\* C10 (as amended): projecting a second time changes nothing in the families
\* that copy each field under its upstream name (quote, search_symbol, OHLCV
\* points, earnings events, dividends, the price-target and estimate records,
\* the TTM dictionaries), nor in the truncated description and the other
\* same-name fields of company_profile and stock_news; an indicator point is
\* unchanged when its resolved value is truthy or missing
C10_CopyingProjectionsIdempotent ==
  /\ Curated("quote") => Stringify(summarizedQuote(Payload)) = Payload
  /\ Curated("search_symbol") =>
       EachFixedBy(Listed("matches"), LAMBDA item : Pick(item, searchFields))
  /\ Curated("historical_stock_data") => EachFixedBy(ShownPoints, ohlcv)
  /\ Curated("earnings_calendar") =>
       EachFixedBy(Listed("earningsEvents"),
                   LAMBDA item : Pick(item, IF Payload.t = "array" THEN earningsFields
                                            ELSE earningsSummaryFields))
  /\ Curated("dividend_calendar") =>
       EachFixedBy(Get(Payload, "dividends").a, LAMBDA div : Pick(div, dividendFields))
  /\ Curated("analyst_estimates") =>
       /\ HasOwn(Payload, "priceTargetSummary") =>
            EachFixedBy(<<Get(Payload, "priceTargetSummary")>>,
                        LAMBDA t : Pick(t, priceTargetFields))
       /\ HasOwn(Payload, "recentEstimates") =>
            EachFixedBy(Get(Payload, "recentEstimates").a,
                        LAMBDA est : Pick(est, estimateFields))
  /\ Curated("financial_ratios_ttm") =>
       EachFixedBy(<<Get(Payload, "ratios")>>,
                   LAMBDA all : curatedDictionary(all, keyRatioNames, "priceFairValueTTM"))
  /\ Curated("key_metrics_ttm") =>
       EachFixedBy(<<Get(Payload, "metrics")>>,
                   LAMBDA all : curatedDictionary(all, keyMetricNames, "bookValuePerShareTTM"))
  /\ Curated("company_profile") =>
       Without(Stringify(summarizedProfile(Payload)), "marketCap")
         = Without(Payload, "marketCap")
  /\ Curated("stock_news") =>
       \A i \in 1..Len(ShownArticles) :
         /\ Without(Stringify(summarizedArticle(ShownArticles[i])), "snippet")
              = Without(ShownArticles[i], "snippet")
         /\ truncateSnippet(Get(ShownArticles[i], "snippet")) = Get(ShownArticles[i], "snippet")
  /\ (Curated("technical_indicator") /\ IsArray(responses[1].data)) =>
       \A i \in 1..Len(Listed("values")) :
         LET point == Listed("values")[i]
             value == Get(point, ToLowerCase(args.indicator_type))
         IN (Truthy(value) \/ value = Undefined)
              => Stringify(indicatorPoint(point, args.indicator_type)) = point

\* a profile whose description was cut at 300 characters, projected again
C10_Witness ==
  /\ Curated("company_profile")
  /\ Len(Get(FetchedRecord, "description").s) > DESCRIPTION_MAX_LENGTH
  /\ Len(Get(Payload, "description").s) = DESCRIPTION_MAX_LENGTH + Len(descriptionMarker)
  /\ HasOwn(Payload, "marketCap")
  /\ Get(Stringify(summarizedProfile(Payload)), "description") = Get(Payload, "description")

\* C10: for every tool family, projecting an already-projected record gives
\* the same record, renames (mktCap -> marketCap, text -> snippet,
\* dcf -> dcfValue) and alias chains included
C10_ProjectionIdempotent ==
  /\ C10_CopyingProjectionsIdempotent
  /\ Curated("company_profile") => Stringify(summarizedProfile(Payload)) = Payload
  /\ Curated("stock_news") => EachFixedBy(ShownArticles, summarizedArticle)
  /\ (Curated("technical_indicator") /\ IsArray(responses[1].data)) =>
       EachFixedBy(Listed("values"), LAMBDA val : indicatorPoint(val, args.indicator_type))
  /\ Curated("dcf_valuation") =>
       Get(Stringify(summarizedDcf(Payload)), "dcfValue") = Get(Payload, "dcfValue")

\* the fetched record and the returned dictionary of a TTM tool
TtmDictionary == IF tool = "financial_ratios_ttm" THEN Get(Payload, "ratios")
                 ELSE Get(Payload, "metrics")

TtmNames == IF tool = "financial_ratios_ttm" THEN keyRatioNames ELSE keyMetricNames

TtmExtra == IF tool = "financial_ratios_ttm" THEN "priceFairValueTTM"
            ELSE "bookValuePerShareTTM"

CuratedTtm == Curated("financial_ratios_ttm") \/ Curated("key_metrics_ttm")

Listed_in(k, names) == \E i \in 1..Len(names) : names[i] = k

\* the key at position i of the dictionary is upstream, not null, copied as is
CopiedFromUpstream(i) ==
  /\ HasOwn(FetchedRecord, TtmDictionary.s[i])
  /\ ~IsNullish(Get(FetchedRecord, TtmDictionary.s[i]))
  /\ TtmDictionary.a[i] = Get(FetchedRecord, TtmDictionary.s[i])

\* C11 (as amended): every key of the ratios / metrics dictionary is upstream
\* with a value that is not null, copied unchanged, and is either a member of
\* keyRatioNames / keyMetricNames or the one extra key (priceFairValueTTM /
\* bookValuePerShareTTM), which appears exactly when its upstream value is truthy
C11_DictionaryAllowList ==
  CuratedTtm =>
    /\ \A i \in 1..Len(TtmDictionary.s) :
         /\ Listed_in(TtmDictionary.s[i], TtmNames) \/ TtmDictionary.s[i] = TtmExtra
         /\ CopiedFromUpstream(i)
    /\ HasOwn(TtmDictionary, TtmExtra) <=> Truthy(Get(FetchedRecord, TtmExtra))

\* a dictionary that kept a listed 0, dropped a listed null and an unlisted
\* key, and carries the extra key
C11_Witness ==
  /\ Curated("financial_ratios_ttm")
  /\ Get(TtmDictionary, "dividendYieldTTM") = Num(0)
  /\ HasOwn(FetchedRecord, "payoutRatioTTM") /\ ~HasOwn(TtmDictionary, "payoutRatioTTM")
  /\ HasOwn(FetchedRecord, "cashPerShareTTM") /\ ~HasOwn(TtmDictionary, "cashPerShareTTM")
  /\ HasOwn(TtmDictionary, "priceFairValueTTM")

\* C11: every key of the ratios / metrics dictionary is a member of
\* keyRatioNames / keyMetricNames, upstream with a value that is not null and
\* copied unchanged; no key outside the list appears
C11_DeclaredKeysOnly ==
  CuratedTtm =>
    \A i \in 1..Len(TtmDictionary.s) :
      Listed_in(TtmDictionary.s[i], TtmNames) /\ CopiedFromUpstream(i)

\* the number of records in the payload of a collection tool
ShownCount(key) == Len(Listed(key))

\* C12: a collection payload never holds more records than the family's cap,
\* whatever the upstream returns and whatever limit or detail is passed:
\* earnings_calendar 10 (with or without symbol), stock_news 10,
\* search_symbol 5, technical_indicator 3, recentEstimates 2,
\* historical_stock_data 150
C12_HardCaps ==
  /\ Curated("earnings_calendar") =>
       ShownCount("earningsEvents") <= EARNINGS_MAX_RESULTS_TO_LLM
  /\ Curated("stock_news") => Len(ShownArticles) <= ARTICLES_FOR_FULL_DETAIL
  /\ Curated("search_symbol") => ShownCount("matches") <= SEARCH_MAX_RESULTS_TO_LLM
  /\ (Curated("technical_indicator") /\ IsArray(responses[1].data)) =>
       ShownCount("values") <= RECENT_VALUES_COUNT
  /\ (Curated("analyst_estimates") /\ HasOwn(Payload, "recentEstimates")) =>
       Len(Get(Payload, "recentEstimates").a) <= RECENT_ESTIMATES_COUNT
  /\ Curated("historical_stock_data") => Len(ShownPoints) <= MAX_POINTS_FOR_FULL_DETAIL

\* a symbol was given and more than 10 earnings events fetched: 10 are shown
C12_Witness ==
  /\ Curated("earnings_calendar") /\ args.symbol
  /\ Len(responses[1].data.a) > EARNINGS_MAX_RESULTS_TO_LLM
  /\ ShownCount("earningsEvents") = EARNINGS_MAX_RESULTS_TO_LLM

\* a sub-source is absent: its request failed, or its body is null, [] or {}
Absent(res) == ~res.ok \/ res.data \in EmptyBodies

HasSection(key) == ResultText.form = "json" /\ HasOwn(Payload, key)

\* C13: analyst_estimates with exactly one sub-source failed or empty returns
\* the curated section of the other and omits the missing one; the no-data
\* text is returned if and only if both are absent
C13_PartialComposite ==
  (pc = "done" /\ server = "curated" /\ tool = "analyst_estimates") =>
    IF Len(responses) = 1
    THEN IsNoDataText(ResultText)
         \/ (HasSection("priceTargetSummary") /\ ~HasSection("recentEstimates"))
    ELSE /\ IsNoDataText(ResultText) <=> (Absent(responses[1]) /\ Absent(responses[2]))
         /\ (~Absent(responses[1]) /\ Absent(responses[2])) =>
              HasSection("recentEstimates") /\ ~HasSection("priceTargetSummary")
         /\ (Absent(responses[1]) /\ ~Absent(responses[2])) =>
              HasSection("priceTargetSummary") /\ ~HasSection("recentEstimates")

\* the request that ended the invocation was rejected
Failed == pc = "done" /\ Len(responses) > 0 /\ ~responses[Len(responses)].ok

LastResponse == responses[Len(responses)]

Contains(line, fragments) ==
  \E i \in 1..Len(line) - Len(fragments) + 1 :
    SubSeq(line, i, i + Len(fragments) - 1) = fragments

\* C14: after a failed request the text of every tool contains the provider's
\* "Error Message" when the response body is an object that has one, and the
\* message of the error otherwise
C14_ProviderMessageSurfaced ==
  (Failed /\ server = "curated") =>
    /\ ResultText.form = "sentence"
    /\ IF HasOwn(LastResponse.body, "Error Message")
       THEN Contains(ResultText.line, Get(LastResponse.body, "Error Message").s)
       ELSE Contains(ResultText.line, LastResponse.message)

\* the most requests one invocation of the tool makes
SourcesOf(name) == IF name = "analyst_estimates" THEN 2 ELSE 1

\* the text reports the failure of the rejected request
CarriesFailure ==
  /\ IsErrorText(ResultText)
  /\ \/ Contains(ResultText.line, LastResponse.message)
     \/ /\ HasOwn(LastResponse.body, "Error Message")
        /\ Contains(ResultText.line, Get(LastResponse.body, "Error Message").s)

\* C15: within one invocation no endpoint is requested twice (one request, or
\* one per sub-source for analyst_estimates), and a rejected request is the
\* last one: the invocation has ended with a text that carries the failure
C15_NoRetry ==
  /\ \A i, j \in 1..Len(requests) : requests[i] = requests[j] => i = j
  /\ Len(requests) <= SourcesOf(tool)
  /\ Len(responses) <= Len(requests)
  /\ \A i \in 1..Len(responses) :
       ~responses[i].ok =>
         /\ i = Len(responses) /\ Len(requests) = i
         /\ pc = "done"
         /\ CarriesFailure

\* analyst_estimates: the second request was rejected after the first was
\* answered; two requests in all, and the result is the error text
C15_Witness ==
  /\ tool = "analyst_estimates" /\ pc = "done"
  /\ requests = <<"analyst-estimates", "price-target-summary">>
  /\ responses[1].ok /\ ~responses[2].ok
  /\ CarriesFailure

Range(seq) == {seq[i] : i \in 1..Len(seq)}

\* (last - first) / first * 100 of two numbers
PercentChange(first, last) == Ratio((last.n * first.d - first.n * last.d) * 100, last.d * first.n)

\* C16: in the digest, priceChangePercent is (endPrice - startPrice) /
\* startPrice * 100 whenever both closes are present and the first is not 0,
\* also when the last close is 0 (-100), and null otherwise; the two closes
\* are those of the earliest and the latest point
C16_PriceChangePercent ==
  Digest =>
    LET first == Get(Payload, "startPrice")
        last == Get(Payload, "endPrice")
        earliest == CHOOSE p \in Range(FetchedSeries) :
                      \A q \in Range(FetchedSeries) : Day(p) <= Day(q)
        latest == CHOOSE p \in Range(FetchedSeries) :
                    \A q \in Range(FetchedSeries) : Day(p) >= Day(q)
    IN /\ Day(earliest) = Get(Payload, "periodStartDate").n
       /\ Day(latest) = Get(Payload, "periodEndDate").n
       /\ Get(Payload, "priceChangePercent")
            = IF first.t = "number" /\ last.t = "number" /\ first.n # 0
              THEN PercentChange(first, last)
              ELSE Null

CouldNotCalculateWords == {"could not be calculated", "Could not calculate"}

\* C17: in the digest priceChangePercent is never NaN or Infinity, and when
\* it is null the message says that the change could not be calculated
C17_NullChangeExplained ==
  Digest =>
    LET change == Get(Payload, "priceChangePercent")
        message == Get(Payload, "message")
    IN /\ change = Null \/ (change.t = "number" /\ change.d # 0)
       /\ change = Null =>
            \E i \in 1..Len(message.s) :
              \E words \in CouldNotCalculateWords : message.s[i] = words

\* the descending sequence the handler works on
Descending == dataPoints(history(responses[1].data))

\* C18: in the digest the chronological sequence is the reverse of the
\* descending one: periodEndDate and endPrice come from recentData[0], and
\* periodStartDate and startPrice from the last record of the descending
\* sequence, also when several points share the latest or the earliest date
C18_ChronologicalIsReverse ==
  Digest =>
    LET newest == Get(Payload, "recentData").a[1]
        oldest == Descending[Len(Descending)]
    IN /\ Get(Payload, "periodEndDate") = Get(newest, "date")
       /\ Get(Payload, "endPrice") = Get(newest, "close")
       /\ Get(Payload, "periodStartDate") = Get(oldest, "date")
       /\ Get(Payload, "startPrice") = Get(oldest, "close")

\* the sentences that ask for another request
UpgradeHints ==
  {"articles fetched. Request 'full' detail for more.",
   "earnings events. Specify a symbol or a tighter date range for more targeted results."}

\* the payload carries a message, and the message states the number
StatesCount(count) ==
  /\ HasSection("message")
  /\ Contains(Get(Payload, "message").s, <<ToString(count)>>)

\* of fetched records the payload shows shown: fewer, with a message stating
\* both numbers; or all, with the count found and no hint
CountMessage(shown, fetched) ==
  IF shown < fetched
  THEN StatesCount(shown) /\ StatesCount(fetched)
  ELSE /\ StatesCount(fetched)
       /\ \A i \in 1..Len(Get(Payload, "message").s) :
            Get(Payload, "message").s[i] \notin UpgradeHints

\* C19: stock_news, earnings_calendar and dividend_calendar state the number
\* shown and the number fetched whenever fewer records are shown than
\* fetched, and state the count found, without a hint to request more,
\* whenever all are shown
C19_CountMessages ==
  /\ Curated("stock_news") => CountMessage(Len(ShownArticles), Len(responses[1].data.a))
  /\ Curated("earnings_calendar") =>
       CountMessage(ShownCount("earningsEvents"), Len(responses[1].data.a))
  /\ Curated("dividend_calendar") =>
       CountMessage(Len(Get(Payload, "dividends").a),
                    Len(Get(responses[1].data, "historical").a))

\* no record of fetched that is left out of shown is newer than one in shown;
\* the records are told apart by the field id and dated by the field date
NoneOlderThanOmitted(shown, fetched, id, date) ==
  \A j \in 1..Len(fetched) :
    (\A i \in 1..Len(shown) : Get(shown[i], id) # Get(fetched[j], id))
      => \A i \in 1..Len(shown) : Get(fetched[j], date).n <= Get(shown[i], date).n

\* C20: stock_news and dividend_calendar surface the K most recent records by
\* date for every ordering of the upstream array: no surfaced record is older
\* than an omitted one
C20_MostRecentSurfaced ==
  /\ Curated("stock_news") =>
       NoneOlderThanOmitted(ShownArticles, responses[1].data.a, "title", "publishedDate")
  /\ Curated("dividend_calendar") =>
       NoneOlderThanOmitted(Get(Payload, "dividends").a,
                            Get(responses[1].data, "historical").a, "label", "date")

\* C21: technical_indicator returns the min(N, 3) most recent of the N
\* upstream values by date, for every ordering of the upstream array
C21_IndicatorMostRecent ==
  (Curated("technical_indicator") /\ IsArray(responses[1].data)) =>
    /\ Len(Listed("values")) = Min(Len(responses[1].data.a), RECENT_VALUES_COUNT)
    /\ NoneOlderThanOmitted(Listed("values"), responses[1].data.a, "date", "date")

\* the value under the first key of the chain that is present and not
\* null/undefined; Undefined when there is none
FirstPresent(record, chain) ==
  LET present == SelectSeq(chain, LAMBDA k : ~IsNullish(Get(record, k)))
  IN IF Len(present) = 0 THEN Undefined ELSE Get(record, present[1])

IndicatorChain(type) == <<ToLowerCase(type), ToUpperCase(type), "indicatorValue", "value">>

\* C22: an output field resolved through a chain of aliases takes the value
\* of the first alias present with a value that is not null/undefined, a
\* falsy one (0) included, and is omitted only if no alias resolves: the
\* technical_indicator value and the dcf_valuation stock price
C22_FirstPresentAliasWins ==
  /\ (Curated("technical_indicator") /\ IsArray(responses[1].data)) =>
       \A i \in 1..Len(Listed("values")) :
         Get(Listed("values")[i], ToLowerCase(args.indicator_type))
           = FirstPresent(responses[1].data.a[i], IndicatorChain(args.indicator_type))
  /\ Curated("dcf_valuation") =>
       Get(Payload, "stockPrice") = FirstPresent(FetchedRecord, <<"Stock Price", "stockPrice">>)

\* the fields a company_profile payload may have, each with its upstream name
ProfileAllowList ==
  {<<k, k>> : k \in {"symbol", "companyName", "price", "currency", "exchangeShortName",
                     "industry", "sector", "website", "description", "ceo", "beta",
                     "volAvg", "lastDiv", "range", "isActivelyTrading"}}
  \cup {<<"marketCap", "mktCap">>}

QuoteAllowList == {<<quoteFields[i], quoteFields[i]>> : i \in 1..Len(quoteFields)}

\* every field of the payload is on the list and is not null, and neither is
\* its upstream value
OnlyPresentNonNull(allowed) ==
  \A i \in 1..Len(Payload.s) :
    /\ Payload.a[i] # Null
    /\ \E pair \in allowed :
         pair[1] = Payload.s[i] /\ ~IsNullish(Get(FetchedRecord, pair[2]))

\* C23: the record returned by company_profile and quote holds only
\* allow-listed fields whose upstream value is present and not null; an
\* absent, undefined or null field is not in the serialized result
C23_OnlyPresentNonNull ==
  /\ Curated("company_profile") => OnlyPresentNonNull(ProfileAllowList)
  /\ Curated("quote") => OnlyPresentNonNull(QuoteAllowList)

SingleEntityTools == {"company_profile", "quote", "dcf_valuation"}

\* the entity asked for is not in the answer
EntityAbsent ==
  \/ responses[1].data \in EmptyBodies
  \/ tool = "dcf_valuation" /\ IsNullish(Get(FetchedRecord, "dcf"))

\* C24: company_profile, quote and dcf_valuation return the not-found text if
\* and only if the entity is absent (null, [], {}) or, for dcf_valuation, its
\* dcf field is null/undefined; otherwise, a dcf of 0 included, they return
\* the projected record itself
C24_NotFoundIffAbsent ==
  (\E name \in SingleEntityTools : Answered(name)) =>
    /\ IsNoDataText(ResultText) <=> EntityAbsent
    /\ ~EntityAbsent =>
         ResultText.form = "json" /\ Payload.t = "object" /\ HasOwn(Payload, "symbol")

\* the collection a historical response stands for: the array itself, the
\* array under historical, the arrays of the groups joined, or the one record
Normalized(raw) ==
  CASE raw.t = "array" -> raw.a
    [] raw.t = "object" /\ IsArray(Get(raw, "historical")) -> Get(raw, "historical").a
    [] raw.t = "object" /\ (\A i \in 1..Len(raw.a) : IsArray(raw.a[i])) -> Flat(raw.a)
    [] OTHER -> <<raw>>

\* the number of fetched points the message of the payload states
StatedTotal ==
  IF args.detail = "full" THEN Get(Payload, "message").s[4] ELSE Get(Payload, "message").s[2]

\* C25: the points historical_stock_data works on are the array itself, the
\* array under historical, the arrays of an object of arrays joined, and for
\* an object of scalar fields the one record it is, never its field values
C25_Normalization ==
  Curated("historical_stock_data") =>
    LET records == Normalized(responses[1].data)
    IN /\ StatedTotal = ToString(Len(records))
       /\ \A i \in 1..Len(ShownPoints) :
            \E j \in 1..Len(records) : ProjectionOf(ShownPoints[i], records[j])


\* C26: every completed analyst_estimates invocation has issued both the
\* analyst-estimates and the price-target-summary request and has had an
\* outcome for each, whatever the outcome of the other
C26_BothRequestsIssued ==
  (pc = "done" /\ server = "curated" /\ tool = "analyst_estimates") =>
    /\ Len(requests) = 2
    /\ requests[2] = "price-target-summary"
    /\ Len(responses) = 2


\* the absolute value of a two-decimal number, written with two decimals
PrintedPercent(x) ==
  LET h == Abs(x.n) * (100 \div x.d)
  IN ToString(h \div 100) \o "." \o ToString((h % 100) \div 10) \o ToString(h % 10)

\* C27: in every dcf_valuation payload the message agrees with the
\* potentialUpsidePercent field: the field is null exactly when the message is
\* the could-not-calculate text, the message says upside only for a positive
\* field and downside only for a negative one, and the percentage it prints
\* is the absolute value of the field
C27_MessageAgreesWithField ==
  Curated("dcf_valuation") =>
    LET field == Get(Payload, "potentialUpsidePercent")
        message == Get(Payload, "message")
    IN /\ field = Null <=> message = CouldNotCalculate
       /\ message.s[1] = "DCF suggests a potential upside of" =>
            field.t = "number" /\ field.n > 0
       /\ message.s[1] = "DCF suggests a potential downside of" =>
            field.t = "number" /\ field.n < 0
       /\ field.t = "number" =>
            message.s[2] = PrintedPercent(field)


\* the "?" and "&" of a url, in order
Separators(url) == SelectSeq(url, LAMBDA part : part \in {"?", "&"})

\* one "?", before every parameter, and apikey the last parameter
WellFormed(url) ==
  LET seps == Separators(url)
  IN /\ Len(seps) >= 1
     /\ seps[1] = "?"
     /\ \A i \in 2..Len(seps) : seps[i] = "&"
     /\ url[Len(url)] = "apikey="
     /\ url[Len(url) - 1] = apikeySeparator(SubSeq(url, 2, Len(url) - 2))

\* C28: in all three servers every upstream request url is the base url, the
\* endpoint and apikey attached with "?" when the endpoint has no query string
\* and "&" when it has one, so that it holds exactly one "?", before every
\* parameter
C28_UrlWellFormed ==
  /\ Len(urls) = Len(requests)
  /\ \A i \in 1..Len(urls) : urls[i][1] = "BASE_URL" /\ WellFormed(urls[i])

====
